---------------------------- MODULE Spec2Model ----------------------------
(***************************************************************************)
(* Autonomous vehicle fleet orchestration: the fleet directory and its     *)
(* dispatcher (fleet-service), the job ledger and the job orchestrator     *)
(* (job-service), and the per-vehicle simulation loop (car-simulator).     *)
(*                                                                         *)
(* Geometry and units.  Every coordinate of the model lies on one         *)
(* meridian, so a location is one integer: a latitude in grid units.  On a *)
(* meridian the Haversine formula reduces to R * |dlat|, which makes the   *)
(* great-circle distance exactly HmPerUnit * |a - b|.  Distances and       *)
(* ranges are in hectometres (0.1 km) and battery levels in tenths of a    *)
(* percentage point, so that every quantity the code computes as a float   *)
(* is a whole number here.                                                 *)
(***************************************************************************)
EXTENDS Integers, Sequences, FiniteSets, TLC

(***************************************************************************)
(* Bounds of the model.                                                    *)
(***************************************************************************)
NumVehicles == 2        \* vehicles of a drawn fleet directory (FindSpec)
MaxJobs == 2            \* job ids the ledger may hold

(***************************************************************************)
(* Program constants.                                                      *)
(***************************************************************************)
HmPerUnit == 8              \* great-circle hectometres of one grid unit
batteryDrainRate == 4       \* km per battery point (= hm per tenth of a point)
MaxFloat64 == 1000000       \* initial minDistance of the dispatcher
BufferNum == 12             \* the 1.2 safety factor, as BufferNum / BufferDen
BufferDen == 10

AllVehicleIDs == <<"v1", "v2", "v3", "v4">>
Regions == {"us-west-2", "us-east-1"}
Statuses == {"available", "busy", "charging", "maintenance"}
JobTypes == {"ride", "delivery"}
NoVehicle == "none"
NoJob == <<"none", 0>>
NoTime == "unset"
Stamped == "set"

\* Places where jobs start and end, where vehicles spawn and where the
\* charging stations are: multiples of a hundred grid units, so that the
\* eleven waypoints of a straight-line route between two places, and of a
\* route from such a waypoint to a place, are whole grid points.
Places == {0, 100, 200}

VARIABLES
    vehicles,     \* fleet directory: vehicle id -> stored Vehicle record
    jobs,         \* job ledger: job id -> stored Job record
    jobCounter,   \* job-service's process-wide id counter
    ret,          \* what the last finished request returned
    pc,           \* orchestrator threads: where each is in its handler
    wjob,         \* orchestrator threads: the job being assigned
    wveh,         \* orchestrator threads: the vehicle the dispatcher returned
    queue,        \* sweep threads: pending jobs still to attempt
    sim           \* car-simulator: each vehicle's own state

ledgerVars == <<jobs, jobCounter>>
orchVars == <<pc, wjob, wveh, queue>>
vars == <<vehicles, jobs, jobCounter, ret, pc, wjob, wveh, queue, sim>>

---------------------------------------------------------------------------
(***************************************************************************)
(* Geo utilities.                                                          *)
(***************************************************************************)
Abs(x) == IF x < 0 THEN -x ELSE x

\* Haversine distance of two points of the meridian.
calculateDistance(lat1, lat2) == HmPerUnit * Abs(lat2 - lat1)

---------------------------------------------------------------------------
(***************************************************************************)
(* Fleet directory (in-memory vehicle storage).  Each operation runs under *)
(* the storage's lock and is one atomic change of the map.                 *)
(***************************************************************************)
Vehicle(region, status, level, range, loc, jobId) ==
    [region |-> region, status |-> status, batteryLevel |-> level,
     batteryRangeKm |-> range, loc |-> loc, currentJobId |-> jobId]

\* Mutant: creating an id that is present succeeds and keeps the record.
CreateVehicle_idempotent(vs, id, v) ==
    IF id \in DOMAIN vs
    THEN [ok |-> TRUE, vehicles |-> vs]
    ELSE [ok |-> TRUE, vehicles |-> (id :> v) @@ vs]

\* CreateVehicle: [ok, vehicles]; fails when the id is present.
CreateVehicle(vs, id, v) ==
    IF id \in DOMAIN vs
    THEN [ok |-> FALSE, vehicles |-> vs]
    ELSE [ok |-> TRUE, vehicles |-> (id :> v) @@ vs]

\* Mutant: the query filters by status only.
GetVehiclesByRegionAndStatus_anyRegion(vs, region, status) ==
    {id \in DOMAIN vs : vs[id].status = status}

GetVehiclesByRegionAndStatus(vs, region, status) ==
    {id \in DOMAIN vs : vs[id].region = region /\ vs[id].status = status}

UpdateVehicleStatus(vs, id, status, jobId) ==
    IF id \notin DOMAIN vs
    THEN [ok |-> FALSE, vehicles |-> vs]
    ELSE [ok |-> TRUE,
          vehicles |-> [vs EXCEPT ![id].status = status,
                                  ![id].currentJobId = jobId]]

UpdateVehicleLocationAndStatus(vs, id, lat, status) ==
    IF id \notin DOMAIN vs
    THEN [ok |-> FALSE, vehicles |-> vs]
    ELSE [ok |-> TRUE,
          vehicles |-> [vs EXCEPT ![id].loc = lat, ![id].status = status]]

UpdateVehicleLocation(vs, id, lat) ==
    IF id \notin DOMAIN vs
    THEN [ok |-> FALSE, vehicles |-> vs]
    ELSE [ok |-> TRUE, vehicles |-> [vs EXCEPT ![id].loc = lat]]

(***************************************************************************)
(* Fleet service.                                                          *)
(***************************************************************************)
\* Mutant: the assignment records the job but leaves the vehicle available.
FleetAssignJob_available(vs, id, jobId) ==
    UpdateVehicleStatus(vs, id, "available", jobId)

FleetAssignJob(vs, id, jobId) == UpdateVehicleStatus(vs, id, "busy", jobId)

\* Mutant: the completion frees the vehicle but keeps its job id.
FleetCompleteJob_keepsJob(vs, id) ==
    IF id \in DOMAIN vs
    THEN UpdateVehicleStatus(vs, id, "available", vs[id].currentJobId)
    ELSE UpdateVehicleStatus(vs, id, "available", NoJob)

FleetCompleteJob(vs, id) == UpdateVehicleStatus(vs, id, "available", NoJob)

\* The battery test of the dispatcher: range < (d + trip) * 1.2 rejects.
InsufficientRange(range, distanceToPickup, tripDistanceKm) ==
    range * BufferDen < (distanceToPickup + tripDistanceKm) * BufferNum

\* Mutant: the dispatcher keeps the last sufficient vehicle, not the nearest.
FindNearestLoop_last(vs, order, pickup, trip, best, minDistance) ==
    LET ok == {i \in 1..Len(order) :
                 ~InsufficientRange(vs[order[i]].batteryRangeKm,
                                    calculateDistance(vs[order[i]].loc, pickup),
                                    trip)}
    IN  IF ok = {} THEN best
        ELSE order[CHOOSE i \in ok : \A k \in ok : k <= i]

\* The loop of FindNearestAvailableVehicle over the query result, taken in
\* the order `order` (Go ranges over the storage map in an unspecified order).
RECURSIVE FindNearestLoop(_, _, _, _, _, _)
FindNearestLoop(vs, order, pickup, trip, best, minDistance) ==
    IF order = <<>> THEN best
    ELSE LET id == Head(order)
             distanceToPickup == calculateDistance(vs[id].loc, pickup)
         IN  IF InsufficientRange(vs[id].batteryRangeKm, distanceToPickup, trip)
             THEN FindNearestLoop(vs, Tail(order), pickup, trip, best, minDistance)
             ELSE IF distanceToPickup < minDistance
                  THEN FindNearestLoop(vs, Tail(order), pickup, trip,
                                       id, distanceToPickup)
                  ELSE FindNearestLoop(vs, Tail(order), pickup, trip,
                                       best, minDistance)

\* Every order in which a set can be ranged over.
RECURSIVE Orders(_)
Orders(S) ==
    IF S = {} THEN {<<>>}
    ELSE UNION {{<<x>> \o o : o \in Orders(S \ {x})} : x \in S}

\* FindNearestAvailableVehicle: the vehicles it may return (NoVehicle stands
\* for the "no available vehicle found" error), one per iteration order.
FindNearestAvailableVehicle(vs, region, pickup, trip) ==
    {FindNearestLoop(vs, o, pickup, trip, NoVehicle, MaxFloat64) :
        o \in Orders(GetVehiclesByRegionAndStatus(vs, region, "available"))}

---------------------------------------------------------------------------
(***************************************************************************)
(* Job ledger (in-memory job storage).                                     *)
(***************************************************************************)
Job(type, region, pickup, dest) ==
    [jobType |-> type, status |-> "pending", assignedVehicleId |-> NoVehicle,
     region |-> region, pickup |-> pickup, dest |-> dest,
     estimatedDistanceKm |-> calculateDistance(pickup, dest),
     assignedAt |-> NoTime, completedAt |-> NoTime,
     fareAmount |-> 0, baseFare |-> 0, distanceFare |-> 0]

\* Pricing, in cents: a ride costs a base fare and a rate per distance
\* ($1.80 per km is 18 cents per hectometre), a delivery a flat rate.
RideBaseFare == 250
RidePerKm == 18
DeliveryFlatRate == 899

\* Mutant: a delivery is priced like a ride on top of its flat rate.
CalculateFare_deliveryByDistance(job) ==
    IF job.jobType = "ride"
    THEN [job EXCEPT !.baseFare = RideBaseFare,
                     !.distanceFare = job.estimatedDistanceKm * RidePerKm,
                     !.fareAmount = RideBaseFare
                                      + job.estimatedDistanceKm * RidePerKm]
    ELSE [job EXCEPT !.baseFare = DeliveryFlatRate,
                     !.distanceFare = job.estimatedDistanceKm * RidePerKm,
                     !.fareAmount = DeliveryFlatRate
                                      + job.estimatedDistanceKm * RidePerKm]

CalculateFare(job) ==
    IF job.jobType = "ride"
    THEN [job EXCEPT !.baseFare = RideBaseFare,
                     !.distanceFare = job.estimatedDistanceKm * RidePerKm,
                     !.fareAmount = RideBaseFare
                                      + job.estimatedDistanceKm * RidePerKm]
    ELSE [job EXCEPT !.baseFare = DeliveryFlatRate,
                     !.distanceFare = 0,
                     !.fareAmount = DeliveryFlatRate]

\* "ride-%d" / "delivery-%d"
JobID(type, n) == <<type, n>>

\* generateJobID: jobCounter++ ; return jobCounter
generateJobID(counter) == counter + 1

\* CreateJob of the storage: fails on a duplicate id.
StorageCreateJob(js, id, job) ==
    IF id \in DOMAIN js
    THEN [ok |-> FALSE, jobs |-> js]
    ELSE [ok |-> TRUE, jobs |-> (id :> job) @@ js]

GetJobsByStatus(js, status) == {id \in DOMAIN js : js[id].status = status}

GetJobsByVehicle(js, vehicleId) ==
    {id \in DOMAIN js : js[id].assignedVehicleId = vehicleId}

\* Mutant: a completion writes the job back without its fare.
UpdateJobStatus_dropsFare(js, id, status, vehicleId) ==
    IF id \notin DOMAIN js
    THEN [ok |-> FALSE, jobs |-> js]
    ELSE [ok |-> TRUE,
          jobs |-> [js EXCEPT
                      ![id].status = status,
                      ![id].assignedVehicleId = vehicleId,
                      ![id].assignedAt =
                          IF status = "assigned" THEN Stamped ELSE @,
                      ![id].completedAt =
                          IF status = "completed" THEN Stamped ELSE @,
                      ![id].fareAmount =
                          IF status = "completed" THEN 0 ELSE @]]

UpdateJobStatus(js, id, status, vehicleId) ==
    IF id \notin DOMAIN js
    THEN [ok |-> FALSE, jobs |-> js]
    ELSE [ok |-> TRUE,
          jobs |-> [js EXCEPT
                      ![id].status = status,
                      ![id].assignedVehicleId = vehicleId,
                      ![id].assignedAt =
                          IF status = "assigned" THEN Stamped ELSE @,
                      ![id].completedAt =
                          IF status = "completed" THEN Stamped ELSE @]]

(***************************************************************************)
(* Job service.                                                            *)
(***************************************************************************)
\* Mutant: completion without the status check.
CompleteJob_unchecked(js, id) ==
    IF id \notin DOMAIN js
    THEN [err |-> TRUE, jobs |-> js]
    ELSE [err |-> FALSE,
          jobs |-> UpdateJobStatus(js, id, "completed",
                                   js[id].assignedVehicleId).jobs]

\* CompleteJob of the job service: [err, jobs].
CompleteJob(js, id) ==
    IF id \notin DOMAIN js
    THEN [err |-> TRUE, jobs |-> js]
    ELSE IF js[id].status # "assigned" /\ js[id].status # "in_progress"
         THEN [err |-> TRUE, jobs |-> js]
         ELSE [err |-> FALSE,
               jobs |-> UpdateJobStatus(js, id, "completed",
                                        js[id].assignedVehicleId).jobs]

\* Mutant: every job that is not completed counts, in_progress included,
\* and so does a job that is completed but was never assigned.
GetActiveJobCount_all(js) == Cardinality(DOMAIN js)

GetActiveJobCount(js) ==
    Cardinality({id \in DOMAIN js :
                    js[id].status = "pending" \/ js[id].status = "assigned"})

\* assignJob: find the nearest vehicle, mark it busy in the fleet directory,
\* then mark the job assigned in the ledger.  The outcomes, one per vehicle
\* the dispatcher may return.  (The fleet client sends pickup and trip
\* distance as decimal strings of 6 and 2 places; the model's coordinates and
\* distances are whole numbers, which those strings carry exactly.)
assignJob(vs, js, id) ==
    {IF v = NoVehicle
     THEN [err |-> TRUE, vehicle |-> NoVehicle, vehicles |-> vs, jobs |-> js]
     ELSE [err |-> FALSE, vehicle |-> v,
           vehicles |-> FleetAssignJob(vs, v, id).vehicles,
           jobs |-> UpdateJobStatus(js, id, "assigned", v).jobs] :
        v \in FindNearestAvailableVehicle(vs, js[id].region, js[id].pickup,
                                          js[id].estimatedDistanceKm)}

\* Mutant: the sweep stops at the first job it fails to assign.
RECURSIVE ProcessPendingLoop_aborts(_, _, _)
ProcessPendingLoop_aborts(vs, js, order) ==
    IF order = <<>> THEN {[vehicles |-> vs, jobs |-> js]}
    ELSE UNION {IF a.err THEN {[vehicles |-> vs, jobs |-> js]}
                ELSE ProcessPendingLoop_aborts(a.vehicles, a.jobs, Tail(order)) :
                   a \in assignJob(vs, js, Head(order))}

\* The loop of ProcessPendingJobs over the pending jobs in the order `order`:
\* a failed assignment is logged and skipped.
RECURSIVE ProcessPendingLoop(_, _, _)
ProcessPendingLoop(vs, js, order) ==
    IF order = <<>> THEN {[vehicles |-> vs, jobs |-> js]}
    ELSE UNION {ProcessPendingLoop(a.vehicles, a.jobs, Tail(order)) :
                   a \in assignJob(vs, js, Head(order))}

\* ProcessPendingJobs: the states one whole sweep may leave.
ProcessPendingJobs(vs, js) ==
    UNION {ProcessPendingLoop(vs, js, o) :
              o \in Orders(GetJobsByStatus(js, "pending"))}

\* CreateRideJob / CreateDeliveryJob: the outcomes of one whole call.
CreateJob(vs, js, counter, type, region, pickup, dest) ==
    LET id == JobID(type, generateJobID(counter))
        made == StorageCreateJob(js, id,
                                 CalculateFare(Job(type, region, pickup, dest)))
    IN  IF ~made.ok
        THEN {[err |-> TRUE, job |-> id, vehicle |-> NoVehicle,
               vehicles |-> vs, jobs |-> js]}
        ELSE {[err |-> FALSE, job |-> id, vehicle |-> a.vehicle,
               vehicles |-> a.vehicles, jobs |-> a.jobs] :
                 a \in assignJob(vs, made.jobs, id)}

---------------------------------------------------------------------------
(***************************************************************************)
(* Car simulator: one vehicle's own state and the behaviours of its tick.  *)
(* A route is the pair <<start, end>> of its straight line; its eleven     *)
(* points are RoutePoint(route, 0..10).  NoRoute stands for a nil route.   *)
(***************************************************************************)
stepSize == 100             \* DEMO_SPEED: grid units moved per tick
RouteLastIndex == 10        \* len(route.Points) - 1
LowBattery == 300           \* 30 %: an available vehicle goes to charge
CriticalBattery == 150      \* 15 %: a busy vehicle abandons its job
FullBattery == 950          \* 95 %: charging stops
ChargeStep == 20            \* 2 % charged per tick
TeleportBattery == 50       \* 5 % after a depletion on the way to charge
RescueBattery == 200        \* 20 % after roadside assistance
NoRoute == <<>>
WanderOffsets == {0}        \* offsets of a random idle target, on the grid

Max(a, b) == IF a > b THEN a ELSE b
Sign(x) == IF x > 0 THEN 1 ELSE IF x < 0 THEN -1 ELSE 0

\* GetChargingStations: the stations of a region, as latitudes.
GetChargingStations(region) ==
    IF region = "us-west-2" THEN <<0>> ELSE <<100, 200>>

RECURSIVE NearestStationLoop(_, _, _, _)
NearestStationLoop(lat, stations, nearest, minDistance) ==
    IF stations = <<>> THEN nearest
    ELSE LET distance == calculateDistance(lat, Head(stations))
         IN  IF distance < minDistance
             THEN NearestStationLoop(lat, Tail(stations), Head(stations), distance)
             ELSE NearestStationLoop(lat, Tail(stations), nearest, minDistance)

FindNearestChargingStation(lat, region) ==
    LET stations == GetChargingStations(region)
    IN  IF Len(stations) = 0 THEN lat
        ELSE NearestStationLoop(lat, Tail(stations), stations[1],
                                calculateDistance(lat, stations[1]))

createStraightLineRoute(start, end) == <<start, end>>

RoutePoint(route, i) == route[1] + (i * (route[2] - route[1])) \div RouteLastIndex

\* NewVehicle
NewVehicle(region, level, startLat) ==
    [region |-> region, Status |-> "available", BatteryLevel |-> level,
     BatteryRangeKm |-> level * batteryDrainRate, loc |-> startLat,
     target |-> 0, isMoving |-> FALSE, currentJob |-> NoJob,
     jobPhase |-> "idle", route |-> NoRoute, routeIndex |-> 0, pc |-> "boot"]

\* setRouteTarget, with the routing service answering by its straight-line
\* fallback.
setRouteTarget(s, targetLat) ==
    [s EXCEPT !.target = targetLat,
              !.route = createStraightLineRoute(s.loc, targetLat),
              !.routeIndex = 0, !.isMoving = TRUE]

\* Mutant: the vehicle heads for the station but its status is left alone.
goToCharge_keepsStatus(s) ==
    [setRouteTarget(s, FindNearestChargingStation(s.loc, s.region))
        EXCEPT !.jobPhase = "going_to_charge"]

goToCharge(s) ==
    LET station == FindNearestChargingStation(s.loc, s.region)
    IN  [setRouteTarget([s EXCEPT !.Status = "charging"], station)
            EXCEPT !.jobPhase = "going_to_charge"]

\* Mutant: a depleted vehicle is stranded wherever it was going.
handleBatteryDepletion_strands(s) ==
    [s EXCEPT !.isMoving = FALSE, !.Status = "maintenance",
              !.jobPhase = "stranded", !.currentJob = NoJob]

handleBatteryDepletion(s) ==
    IF s.Status = "charging" /\ s.jobPhase = "going_to_charge"
    THEN [s EXCEPT !.loc = FindNearestChargingStation(s.loc, s.region),
                   !.isMoving = FALSE, !.jobPhase = "charging",
                   !.BatteryLevel = TeleportBattery,
                   !.BatteryRangeKm = TeleportBattery * batteryDrainRate]
    ELSE [s EXCEPT !.isMoving = FALSE, !.Status = "maintenance",
                   !.jobPhase = "stranded", !.currentJob = NoJob]

\* Mutant: the drain lowers the level and leaves the range as it was.
drainBattery_staleRange(s, traveled) ==
    IF traveled <= 0 THEN s
    ELSE LET newBatteryLevel ==
                 Max(0, s.BatteryLevel - traveled \div batteryDrainRate)
             d == [s EXCEPT !.BatteryLevel = newBatteryLevel]
         IN  IF newBatteryLevel = 0 THEN handleBatteryDepletion(d) ELSE d

\* Mutant: the level is kept in whole percentage points.
drainBattery_wholePoints(s, traveled) ==
    IF traveled <= 0 THEN s
    ELSE LET newBatteryLevel ==
                 (Max(0, s.BatteryLevel - traveled \div batteryDrainRate) \div 10) * 10
             d == [s EXCEPT !.BatteryLevel = newBatteryLevel,
                            !.BatteryRangeKm = newBatteryLevel * batteryDrainRate]
         IN  IF newBatteryLevel = 0 THEN handleBatteryDepletion(d) ELSE d

drainBattery(s, traveled) ==
    IF traveled <= 0 THEN s
    ELSE LET newBatteryLevel ==
                 Max(0, s.BatteryLevel - traveled \div batteryDrainRate)
             d == [s EXCEPT !.BatteryLevel = newBatteryLevel,
                            !.BatteryRangeKm = newBatteryLevel * batteryDrainRate]
         IN  IF newBatteryLevel = 0 THEN handleBatteryDepletion(d) ELSE d

moveTowardsTarget(s) ==
    IF s.BatteryLevel <= 0 THEN handleBatteryDepletion(s)
    ELSE IF s.target = s.loc
         THEN [s EXCEPT !.loc = s.target, !.isMoving = FALSE]
         ELSE LET new == s.loc + Sign(s.target - s.loc) * stepSize
              IN  drainBattery([s EXCEPT !.loc = new],
                               calculateDistance(s.loc, new))

moveAlongRoute(s) ==
    IF s.BatteryLevel <= 0 THEN handleBatteryDepletion(s)
    ELSE IF s.route = NoRoute THEN moveTowardsTarget(s)
    ELSE IF s.routeIndex >= RouteLastIndex
         THEN [s EXCEPT !.loc = s.target, !.isMoving = FALSE,
                        !.route = NoRoute, !.routeIndex = 0]
    ELSE LET nextPoint == RoutePoint(s.route, s.routeIndex + 1)
             new == IF Abs(nextPoint - s.loc) < stepSize
                    THEN [s EXCEPT !.routeIndex = s.routeIndex + 1,
                                   !.loc = nextPoint]
                    ELSE [s EXCEPT !.loc = s.loc
                                      + Sign(nextPoint - s.loc) * stepSize]
         IN  drainBattery(new, calculateDistance(s.loc, new.loc))

\* Mutant: the job starts in the delivery phase, routed to the pickup.
startJob_delivery(s, id, js) ==
    setRouteTarget([s EXCEPT !.currentJob = id, !.Status = "busy",
                             !.jobPhase = "delivery"], js[id].pickup)

\* Mutant: the job is taken up without the status turning busy.
startJob_keepsStatus(s, id, js) ==
    setRouteTarget([s EXCEPT !.currentJob = id, !.jobPhase = "pickup"],
                   js[id].pickup)

startJob(s, id, js) ==
    setRouteTarget([s EXCEPT !.currentJob = id, !.Status = "busy",
                             !.jobPhase = "pickup"], js[id].pickup)

\* Mutant: the poll starts the first job of the listing, whatever its status.
checkForJobs_anyStatus(s, v, js) ==
    IF s.Status # "available" \/ s.currentJob # NoJob THEN {s}
    ELSE IF GetJobsByVehicle(js, v) = {} THEN {s}
         ELSE {startJob(s, id, js) : id \in GetJobsByVehicle(js, v)}

\* checkForJobs: the states it may leave; the job started is the first
\* assigned one of the listing, whose order is unspecified.
checkForJobs(s, v, js) ==
    IF s.Status # "available" \/ s.currentJob # NoJob THEN {s}
    ELSE LET assigned == {id \in GetJobsByVehicle(js, v) :
                             js[id].status = "assigned"}
         IN  IF assigned = {} THEN {s}
             ELSE {startJob(s, id, js) : id \in assigned}

simulateIdleBehavior(s) ==
    IF ~s.isMoving
    THEN {s} \cup {[s EXCEPT !.target = s.loc + d, !.isMoving = TRUE] :
                      d \in WanderOffsets}
    ELSE {moveTowardsTarget(s)}

\* completeCurrentJob: [sim, jobs]; an error of the ledger is only printed.
completeCurrentJob(s, js) ==
    IF s.currentJob = NoJob THEN [sim |-> s, jobs |-> js]
    ELSE [sim |-> [s EXCEPT !.currentJob = NoJob, !.Status = "available",
                            !.isMoving = FALSE, !.jobPhase = "idle"],
          jobs |-> CompleteJob(js, s.currentJob).jobs]

\* Mutant: a busy vehicle drives on whatever its battery.
simulateJobExecution_drivesOn(s, js) ==
    IF s.currentJob = NoJob
    THEN [sim |-> [s EXCEPT !.Status = "available", !.isMoving = FALSE],
          jobs |-> js]
    ELSE IF ~s.isMoving THEN [sim |-> s, jobs |-> js]
    ELSE LET m == moveAlongRoute(s)
         IN  IF m.target # m.loc THEN [sim |-> m, jobs |-> js]
             ELSE IF m.jobPhase = "pickup"
             THEN [sim |-> setRouteTarget([m EXCEPT !.jobPhase = "delivery"],
                                          js[m.currentJob].dest),
                   jobs |-> js]
             ELSE IF m.jobPhase = "delivery" THEN completeCurrentJob(m, js)
             ELSE [sim |-> m, jobs |-> js]

simulateJobExecution(s, js) ==
    IF s.currentJob = NoJob
    THEN [sim |-> [s EXCEPT !.Status = "available", !.isMoving = FALSE],
          jobs |-> js]
    ELSE IF s.BatteryLevel <= CriticalBattery
    THEN [sim |-> goToCharge([s EXCEPT !.currentJob = NoJob,
                                       !.jobPhase = "idle"]),
          jobs |-> js]
    ELSE IF ~s.isMoving THEN [sim |-> s, jobs |-> js]
    ELSE LET m == moveAlongRoute(s)
         IN  IF m.target # m.loc THEN [sim |-> m, jobs |-> js]
             ELSE IF m.jobPhase = "pickup"
             THEN [sim |-> setRouteTarget([m EXCEPT !.jobPhase = "delivery"],
                                          js[m.currentJob].dest),
                   jobs |-> js]
             ELSE IF m.jobPhase = "delivery" THEN completeCurrentJob(m, js)
             ELSE [sim |-> m, jobs |-> js]

\* Mutant: roadside assistance has not arrived yet.
simulateMaintenance_waits(s) == s

simulateMaintenance(s) ==
    IF s.jobPhase = "stranded"
    THEN goToCharge([s EXCEPT !.BatteryLevel = RescueBattery,
                              !.BatteryRangeKm = RescueBattery * batteryDrainRate,
                              !.Status = "charging",
                              !.jobPhase = "going_to_charge"])
    ELSE s

\* Mutant: charging stops as soon as the battery is above the low mark.
simulateCharging_early(s) ==
    IF s.isMoving /\ s.jobPhase = "going_to_charge"
    THEN LET m == moveAlongRoute(s)
         IN  IF m.target = m.loc
             THEN [m EXCEPT !.isMoving = FALSE, !.jobPhase = "charging"]
             ELSE m
    ELSE IF s.jobPhase = "charging"
    THEN IF s.BatteryLevel <= LowBattery
         THEN [s EXCEPT !.BatteryLevel = s.BatteryLevel + ChargeStep,
                        !.BatteryRangeKm =
                            (s.BatteryLevel + ChargeStep) * batteryDrainRate]
         ELSE [s EXCEPT !.Status = "available", !.isMoving = FALSE,
                        !.jobPhase = "idle"]
    ELSE s

\* Mutant: charging goes on while the battery is at or below 100 %.
simulateCharging_overfull(s) ==
    IF s.isMoving /\ s.jobPhase = "going_to_charge"
    THEN LET m == moveAlongRoute(s)
         IN  IF m.target = m.loc
             THEN [m EXCEPT !.isMoving = FALSE, !.jobPhase = "charging"]
             ELSE m
    ELSE IF s.jobPhase = "charging"
    THEN IF s.BatteryLevel <= 1000
         THEN [s EXCEPT !.BatteryLevel = s.BatteryLevel + ChargeStep,
                        !.BatteryRangeKm =
                            (s.BatteryLevel + ChargeStep) * batteryDrainRate]
         ELSE [s EXCEPT !.Status = "available", !.isMoving = FALSE,
                        !.jobPhase = "idle"]
    ELSE s

simulateCharging(s) ==
    IF s.isMoving /\ s.jobPhase = "going_to_charge"
    THEN LET m == moveAlongRoute(s)
         IN  IF m.target = m.loc
             THEN [m EXCEPT !.isMoving = FALSE, !.jobPhase = "charging"]
             ELSE m
    ELSE IF s.jobPhase = "charging"
    THEN IF s.BatteryLevel < FullBattery
         THEN [s EXCEPT !.BatteryLevel = s.BatteryLevel + ChargeStep,
                        !.BatteryRangeKm =
                            (s.BatteryLevel + ChargeStep) * batteryDrainRate]
         ELSE [s EXCEPT !.Status = "available", !.isMoving = FALSE,
                        !.jobPhase = "idle"]
    ELSE s

\* The first half of one tick of simulationLoop: the poll of the ledger and
\* the behaviour of the vehicle's status.  The outcomes as [sim, jobs].
TickBehaviour(s, v, js) ==
    UNION {IF c.Status = "available"
           THEN {[sim |-> i, jobs |-> js] : i \in simulateIdleBehavior(c)}
           ELSE IF c.Status = "busy" THEN {simulateJobExecution(c, js)}
           ELSE IF c.Status = "charging"
           THEN {[sim |-> simulateCharging(c), jobs |-> js]}
           ELSE IF c.Status = "maintenance"
           THEN {[sim |-> simulateMaintenance(c), jobs |-> js]}
           ELSE {[sim |-> c, jobs |-> js]} :
              c \in checkForJobs(s, v, js)}

\* The end of the tick, after the report: an available vehicle at or below
\* 30 % goes to charge.
\* Mutant: the low-battery check spares a vehicle that stands still.
LowBatteryCheck_moving(s) ==
    IF s.BatteryLevel <= LowBattery /\ s.Status = "available" /\ s.isMoving
    THEN goToCharge(s) ELSE s

LowBatteryCheck(s) ==
    IF s.BatteryLevel <= LowBattery /\ s.Status = "available"
    THEN goToCharge(s) ELSE s

---------------------------------------------------------------------------
(***************************************************************************)
(* State shared by the specifications.                                     *)
(***************************************************************************)
VehicleIDs == {AllVehicleIDs[i] : i \in 1..NumVehicles}
EmptyMap == [x \in {} |-> x]
NoReturn == [op |-> "none"]

Threads == {"create", "sweep"}
IdleOrch ==
    /\ pc = [t \in Threads |-> "idle"]
    /\ wjob = [t \in Threads |-> NoJob]
    /\ wveh = [t \in Threads |-> NoVehicle]
    /\ queue = <<>>

---------------------------------------------------------------------------
(***************************************************************************)
(* FindSpec: the dispatcher alone.  The directory is drawn from a bounded  *)
(* set of fleets; each step is one GET /vehicles/nearest.                  *)
(***************************************************************************)
DrawnLevels == {230, 240, 990}
DrawnVehicles ==
    {Vehicle(r, st, l, l * batteryDrainRate, p, NoJob) :
        r \in Regions, st \in {"available", "busy"}, l \in DrawnLevels,
        p \in Places}
TripDistances == {calculateDistance(a, b) : a \in Places, b \in Places}

FindInit ==
    /\ vehicles \in [VehicleIDs -> DrawnVehicles]
    /\ jobs = EmptyMap
    /\ jobCounter = 0
    /\ ret = NoReturn
    /\ IdleOrch
    /\ sim = EmptyMap

\* Handler FindNearestVehicle: answers with a vehicle or with 404.  One
\* request is answered per drawn directory.
FindNearestVehicle(region, pickup, trip) ==
    /\ ret = NoReturn
    /\ \E v \in FindNearestAvailableVehicle(vehicles, region, pickup, trip) :
          ret' = [op |-> "find", region |-> region, pickup |-> pickup,
                  trip |-> trip, vehicle |-> v]
    /\ UNCHANGED <<vehicles, ledgerVars, orchVars, sim>>

FindNext ==
    \E region \in Regions, pickup \in Places, trip \in TripDistances :
        FindNearestVehicle(region, pickup, trip)

FindSpec == FindInit /\ [][FindNext]_vars

\* The vehicles of the directory that qualify for the request answered last.
Qualifying(vs, region, pickup, trip) ==
    {id \in DOMAIN vs :
        /\ vs[id].region = region
        /\ vs[id].status = "available"
        /\ vs[id].batteryRangeKm * 10 >=
              (calculateDistance(vs[id].loc, pickup) + trip) * 12}

\* C1: the dispatcher answers with a vehicle of the requested region that is
\* available and whose range is at least (distance to pickup + trip) * 1.2,
\* and no such vehicle is strictly nearer to the pickup; it answers "no
\* vehicle available" exactly when no vehicle qualifies.
C1_NearestQualifying ==
    ret.op = "find" =>
        LET Q == Qualifying(vehicles, ret.region, ret.pickup, ret.trip)
        IN  IF ret.vehicle = NoVehicle THEN Q = {}
            ELSE /\ ret.vehicle \in Q
                 /\ \A o \in Q :
                       calculateDistance(vehicles[o].loc, ret.pickup) >=
                       calculateDistance(vehicles[ret.vehicle].loc, ret.pickup)

\* A request answered with a vehicle although another available vehicle of
\* the region stands strictly nearer to the pickup with too little range.
C1_Witness ==
    /\ ret.op = "find"
    /\ ret.vehicle # NoVehicle
    /\ \E o \in DOMAIN vehicles :
          /\ vehicles[o].region = ret.region
          /\ vehicles[o].status = "available"
          /\ calculateDistance(vehicles[o].loc, ret.pickup) <
             calculateDistance(vehicles[ret.vehicle].loc, ret.pickup)
          /\ o \notin Qualifying(vehicles, ret.region, ret.pickup, ret.trip)

---------------------------------------------------------------------------
(***************************************************************************)
(* SeqSpec: the HTTP interface of the two services, one request at a time. *)
(* Each action is one whole handler, run to its response.                  *)
(***************************************************************************)
SeqFleet == {"v1", "v2"}
SeqRegistration(id) ==
    IF id = "v1" THEN Vehicle("us-west-2", "available", 990, 3960, 0, NoJob)
    ELSE Vehicle("us-west-2", "available", 240, 960, 100, NoJob)
SeqReportStatuses == {"available", "charging"}
SeqJobInputs ==
    {<<"ride", "us-west-2", 0, 100>>, <<"delivery", "us-west-2", 100, 0>>,
     <<"ride", "us-east-1", 0, 0>>}
JobIDs == {JobID(t, n) : t \in JobTypes, n \in 1..(MaxJobs + 1)}

SeqInit ==
    /\ vehicles = EmptyMap
    /\ jobs = EmptyMap
    /\ jobCounter = 0
    /\ ret = NoReturn
    /\ IdleOrch
    /\ sim = EmptyMap

\* POST /vehicles
RegisterVehicleCall(id) ==
    LET r == CreateVehicle(vehicles, id, SeqRegistration(id))
    IN  /\ vehicles' = r.vehicles
        /\ ret' = [op |-> "register", err |-> ~r.ok, vehicle |-> id]
        /\ UNCHANGED <<ledgerVars, orchVars, sim>>

\* PUT /vehicles/{id}/location
UpdateVehicleLocationCall(id, lat, status) ==
    LET r == UpdateVehicleLocationAndStatus(vehicles, id, lat, status)
    IN  /\ vehicles' = r.vehicles
        /\ ret' = [op |-> "report", err |-> ~r.ok, vehicle |-> id]
        /\ UNCHANGED <<ledgerVars, orchVars, sim>>

\* POST /vehicles/{id}/complete
FleetCompleteJobCall(id) ==
    LET r == FleetCompleteJob(vehicles, id)
    IN  /\ vehicles' = r.vehicles
        /\ ret' = [op |-> "release", err |-> ~r.ok, vehicle |-> id]
        /\ UNCHANGED <<ledgerVars, orchVars, sim>>

\* POST /jobs
CreateJobCall(type, region, pickup, dest) ==
    /\ jobCounter < MaxJobs
    /\ \E r \in CreateJob(vehicles, jobs, jobCounter, type, region, pickup, dest) :
          /\ vehicles' = r.vehicles
          /\ jobs' = r.jobs
          /\ ret' = [op |-> "create", err |-> r.err, job |-> r.job]
    /\ jobCounter' = generateJobID(jobCounter)
    /\ UNCHANGED <<orchVars, sim>>

\* POST /jobs/process
ProcessPendingJobsCall ==
    /\ \E r \in ProcessPendingJobs(vehicles, jobs) :
          /\ vehicles' = r.vehicles
          /\ jobs' = r.jobs
    /\ ret' = [op |-> "process", err |-> FALSE]
    /\ UNCHANGED <<jobCounter, orchVars, sim>>

\* POST /jobs/{id}/complete
CompleteJobCall(id) ==
    LET r == CompleteJob(jobs, id)
    IN  /\ jobs' = r.jobs
        /\ ret' = [op |-> "complete", err |-> r.err, job |-> id]
        /\ UNCHANGED <<vehicles, jobCounter, orchVars, sim>>

\* The demo generator's question: how many jobs are active?
GetActiveJobCountCall ==
    /\ ret' = [op |-> "count", err |-> FALSE, n |-> GetActiveJobCount(jobs)]
    /\ UNCHANGED <<vehicles, ledgerVars, orchVars, sim>>

SeqNext ==
    \/ \E id \in SeqFleet : RegisterVehicleCall(id)
    \/ \E id \in SeqFleet, status \in SeqReportStatuses :
          UpdateVehicleLocationCall(id, SeqRegistration(id).loc, status)
    \/ \E id \in SeqFleet : FleetCompleteJobCall(id)
    \/ \E in \in SeqJobInputs : CreateJobCall(in[1], in[2], in[3], in[4])
    \/ ProcessPendingJobsCall
    \/ \E id \in JobIDs : CompleteJobCall(id)
    \/ GetActiveJobCountCall

SeqSpec == SeqInit /\ [][SeqNext]_vars

\* C2: a job creation (ride or delivery) returns the job and no error
\* whatever the vehicle availability; when no vehicle qualified the ledger
\* holds the job as pending with no assigned vehicle, and when exactly one
\* vehicle qualified the ledger holds it as assigned to that vehicle and the
\* directory shows that vehicle busy.
C2_CreationAlwaysSucceeds ==
    [][jobCounter' # jobCounter =>
          /\ ret'.op = "create"
          /\ ret'.err = FALSE
          /\ ret'.job \in DOMAIN jobs' \ DOMAIN jobs
          /\ LET j == jobs'[ret'.job]
                 Q == Qualifying(vehicles, j.region, j.pickup,
                                 calculateDistance(j.pickup, j.dest))
             IN  /\ Q = {} => /\ j.status = "pending"
                              /\ j.assignedVehicleId = NoVehicle
                 /\ \A v \in Q :
                       Q = {v} => /\ j.status = "assigned"
                                  /\ j.assignedVehicleId = v
                                  /\ vehicles'[v].status = "busy"]_vars

\* The creation answered last was assigned at once, and an earlier job, for
\* which nothing qualified, is still pending.
C2_Witness ==
    /\ ret.op = "create"
    /\ ~ret.err
    /\ jobs[ret.job].status = "assigned"
    /\ vehicles[jobs[ret.job].assignedVehicleId].status = "busy"
    /\ \E o \in DOMAIN jobs :
          jobs[o].status = "pending" /\ jobs[o].assignedVehicleId = NoVehicle

\* C9: completeJob answers with an error and leaves the ledger as it was
\* when the job is unknown or its status is neither assigned nor
\* in_progress; otherwise it sets the status completed and stamps
\* completed_at, changing nothing else.
C9_CompleteJobContract ==
    [][(ret'.op = "complete" /\ <<ret, jobs>>' # <<ret, jobs>>) =>
          LET id == ret'.job
          IN  IF id \in DOMAIN jobs /\ jobs[id].status \in {"assigned", "in_progress"}
              THEN /\ ret'.err = FALSE
                   /\ jobs' = [jobs EXCEPT ![id].status = "completed",
                                           ![id].completedAt = Stamped]
              ELSE /\ ret'.err = TRUE
                   /\ jobs' = jobs]_vars

\* A completion refused for a job that an earlier completion had completed.
C9_Witness ==
    /\ ret.op = "complete"
    /\ ret.err
    /\ ret.job \in DOMAIN jobs
    /\ jobs[ret.job].status = "completed"
    /\ jobs[ret.job].completedAt = Stamped

\* C10: the active job count answered is the number of ledger jobs that are
\* pending or assigned at the call, and the count is one lower right after
\* a step in which one of them becomes completed.
C10_ActiveJobCount ==
    [][/\ ret'.op = "count" =>
             ret'.n = Cardinality(GetJobsByStatus(jobs', "pending"))
                      + Cardinality(GetJobsByStatus(jobs', "assigned"))
       /\ \A id \in DOMAIN jobs :
             (jobs[id].status \in {"pending", "assigned"}
                 /\ jobs'[id].status = "completed")
             => GetActiveJobCount(jobs') = GetActiveJobCount(jobs) - 1]_vars

\* A count of one answered while the ledger also holds a completed job.
C10_Witness ==
    /\ ret.op = "count"
    /\ ret.n = 1
    /\ Cardinality(DOMAIN jobs) = 2
    /\ \E id \in DOMAIN jobs : jobs[id].status = "completed"

\* C12: a job is never assigned to a vehicle registered in another region
\* than the job's; while the directory holds no vehicle of the job's region
\* the job is pending with no assigned vehicle, whatever vehicles exist
\* elsewhere.
C12_NoCrossRegionAssignment ==
    \A id \in DOMAIN jobs :
        /\ jobs[id].assignedVehicleId # NoVehicle =>
              /\ jobs[id].assignedVehicleId \in DOMAIN vehicles
              /\ vehicles[jobs[id].assignedVehicleId].region = jobs[id].region
        /\ {v \in DOMAIN vehicles : vehicles[v].region = jobs[id].region} = {} =>
              /\ jobs[id].status = "pending"
              /\ jobs[id].assignedVehicleId = NoVehicle

\* A sweep has just run and left a job of a region without vehicles pending,
\* although a vehicle of the other region is available with ample range.
C12_Witness ==
    /\ ret.op = "process"
    /\ \E id \in DOMAIN jobs :
          /\ jobs[id].region = "us-east-1"
          /\ jobs[id].status = "pending"
          /\ jobs[id].assignedVehicleId = NoVehicle
          /\ \E v \in DOMAIN vehicles :
                /\ vehicles[v].region = "us-west-2"
                /\ vehicles[v].status = "available"
                /\ ~InsufficientRange(vehicles[v].batteryRangeKm,
                       calculateDistance(vehicles[v].loc, jobs[id].pickup),
                       jobs[id].estimatedDistanceKm)


C29_FareIsSetOnce ==
    [][\A id \in DOMAIN jobs' :
          IF id \in DOMAIN jobs
          THEN /\ jobs'[id].fareAmount = jobs[id].fareAmount
               /\ jobs'[id].baseFare = jobs[id].baseFare
               /\ jobs'[id].distanceFare = jobs[id].distanceFare
          ELSE /\ jobs'[id].fareAmount =
                     jobs'[id].baseFare + jobs'[id].distanceFare
               /\ jobs'[id].baseFare =
                     IF id[1] = "ride" THEN RideBaseFare ELSE DeliveryFlatRate
               /\ jobs'[id].distanceFare =
                     IF id[1] = "ride"
                     THEN calculateDistance(jobs'[id].pickup, jobs'[id].dest)
                             * RidePerKm
                     ELSE 0]_vars

\* A ride over a distance has been assigned and completed, and it still
\* carries the fare of its creation.
C29_Witness ==
    \E id \in DOMAIN jobs :
        /\ id[1] = "ride"
        /\ jobs[id].status = "completed"
        /\ jobs[id].completedAt = Stamped
        /\ jobs[id].distanceFare > 0
        /\ jobs[id].fareAmount = RideBaseFare + jobs[id].distanceFare

---------------------------------------------------------------------------
(***************************************************************************)
(* FleetSpec: the HTTP interface of the fleet service alone, one request   *)
(* at a time: registration, location report, assignment and completion.    *)
(***************************************************************************)
FleetJobIDs == {JobID("ride", 1), JobID("delivery", 2)}

\* POST /vehicles/{id}/assign
FleetAssignJobCall(id, jobId) ==
    LET r == FleetAssignJob(vehicles, id, jobId)
    IN  /\ vehicles' = r.vehicles
        /\ ret' = [op |-> "assign", err |-> ~r.ok, vehicle |-> id, job |-> jobId]
        /\ UNCHANGED <<ledgerVars, orchVars, sim>>

FleetNext ==
    \/ \E id \in SeqFleet : RegisterVehicleCall(id)
    \/ \E id \in SeqFleet, lat \in Places, status \in SeqReportStatuses :
          UpdateVehicleLocationCall(id, lat, status)
    \/ \E id \in SeqFleet, jobId \in FleetJobIDs : FleetAssignJobCall(id, jobId)
    \/ \E id \in SeqFleet : FleetCompleteJobCall(id)

FleetSpec == SeqInit /\ [][FleetNext]_vars

\* C11: the fleet's AssignJob leaves the vehicle busy with that job as its
\* current job, and the fleet's CompleteJob leaves it available with no
\* current job; both fail for a vehicle the directory does not hold and
\* change nothing else of the directory.
C11_AssignCompleteRoundTrip ==
    [][/\ ret'.op = "assign" =>
             IF ret'.vehicle \in DOMAIN vehicles
             THEN /\ ~ret'.err
                  /\ vehicles' = [vehicles EXCEPT
                                     ![ret'.vehicle].status = "busy",
                                     ![ret'.vehicle].currentJobId = ret'.job]
             ELSE ret'.err /\ vehicles' = vehicles
       /\ ret'.op = "release" =>
             IF ret'.vehicle \in DOMAIN vehicles
             THEN /\ ~ret'.err
                  /\ vehicles' = [vehicles EXCEPT
                                     ![ret'.vehicle].status = "available",
                                     ![ret'.vehicle].currentJobId = NoJob]
             ELSE ret'.err /\ vehicles' = vehicles]_vars

\* A completion has freed a vehicle while the other vehicle is still busy
\* with the job an assignment gave it.
C11_Witness ==
    /\ ret.op = "release"
    /\ ~ret.err
    /\ vehicles[ret.vehicle].status = "available"
    /\ vehicles[ret.vehicle].currentJobId = NoJob
    /\ \E o \in DOMAIN vehicles :
          /\ vehicles[o].status = "busy"
          /\ vehicles[o].currentJobId \in FleetJobIDs

---------------------------------------------------------------------------
(***************************************************************************)
(* Spec: the three programs running together.  The job-service has two     *)
(* threads: "create" serves the job requests of a client that sends them   *)
(* one after another, "sweep" is the background JobProcessor.  Each takes  *)
(* the steps of assignJob one remote call at a time.  Each simulated       *)
(* vehicle registers and then ticks; a tick is two steps, the poll and     *)
(* behaviour (TickWork) and the report to the fleet (TickReport).          *)
(***************************************************************************)
SimFleet == {"v1"}
SpawnRegion == "us-west-2"

\* The thread is done with its job: the creation returns to its client, the
\* sweep goes on to the next pending job of its list.
Done(t, vehicle) ==
    IF t = "create"
    THEN /\ pc' = [pc EXCEPT ![t] = "idle"]
         /\ wjob' = [wjob EXCEPT ![t] = NoJob]
         /\ wveh' = [wveh EXCEPT ![t] = NoVehicle]
         /\ ret' = [op |-> "create", err |-> FALSE, job |-> wjob[t],
                    vehicle |-> vehicle]
         /\ UNCHANGED queue
    ELSE /\ queue' = Tail(queue)
         /\ pc' = [pc EXCEPT ![t] = IF Tail(queue) = <<>> THEN "idle" ELSE "find"]
         /\ wjob' = [wjob EXCEPT ![t] = IF Tail(queue) = <<>> THEN NoJob
                                        ELSE Head(Tail(queue))]
         /\ wveh' = [wveh EXCEPT ![t] = NoVehicle]
         /\ UNCHANGED ret

\* CreateRideJob / CreateDeliveryJob up to the call of assignJob.
CreateStart(type, region, pickup, dest) ==
    /\ pc["create"] = "idle"
    /\ jobCounter < MaxJobs
    /\ LET id == JobID(type, generateJobID(jobCounter))
           made == StorageCreateJob(jobs, id,
                       CalculateFare(Job(type, region, pickup, dest)))
       IN  /\ jobs' = made.jobs
           /\ jobCounter' = generateJobID(jobCounter)
           /\ IF made.ok
              THEN /\ pc' = [pc EXCEPT !["create"] = "find"]
                   /\ wjob' = [wjob EXCEPT !["create"] = id]
                   /\ UNCHANGED ret
              ELSE /\ ret' = [op |-> "create", err |-> TRUE, job |-> id,
                              vehicle |-> NoVehicle]
                   /\ UNCHANGED <<pc, wjob>>
    /\ UNCHANGED <<vehicles, wveh, queue, sim>>

\* Mutant: the sweep lists the assigned jobs instead of the pending ones.
SweepStart_assigned ==
    /\ pc["sweep"] = "idle"
    /\ \E order \in Orders(GetJobsByStatus(jobs, "assigned")) :
          /\ order # <<>>
          /\ queue' = order
          /\ wjob' = [wjob EXCEPT !["sweep"] = Head(order)]
    /\ pc' = [pc EXCEPT !["sweep"] = "find"]
    /\ UNCHANGED <<vehicles, ledgerVars, ret, wveh, sim>>

\* processPendingJobs: the sweep lists the pending jobs.
SweepStart ==
    /\ pc["sweep"] = "idle"
    /\ \E order \in Orders(GetJobsByStatus(jobs, "pending")) :
          /\ order # <<>>
          /\ queue' = order
          /\ wjob' = [wjob EXCEPT !["sweep"] = Head(order)]
    /\ pc' = [pc EXCEPT !["sweep"] = "find"]
    /\ UNCHANGED <<vehicles, ledgerVars, ret, wveh, sim>>

\* Mutant: the dispatcher marks the vehicle it returns busy.
Find_reserving(t) ==
    /\ pc[t] = "find"
    /\ \E v \in FindNearestAvailableVehicle(vehicles, jobs[wjob[t]].region,
                   jobs[wjob[t]].pickup, jobs[wjob[t]].estimatedDistanceKm) :
          IF v = NoVehicle
          THEN Done(t, NoVehicle) /\ UNCHANGED vehicles
          ELSE /\ wveh' = [wveh EXCEPT ![t] = v]
               /\ pc' = [pc EXCEPT ![t] = "assign"]
               /\ vehicles' = [vehicles EXCEPT ![v].status = "busy"]
               /\ UNCHANGED <<wjob, queue, ret>>
    /\ UNCHANGED <<ledgerVars, sim>>

\* assignJob, first call: GET /vehicles/nearest.
Find(t) ==
    /\ pc[t] = "find"
    /\ \E v \in FindNearestAvailableVehicle(vehicles, jobs[wjob[t]].region,
                   jobs[wjob[t]].pickup, jobs[wjob[t]].estimatedDistanceKm) :
          IF v = NoVehicle
          THEN Done(t, NoVehicle)
          ELSE /\ wveh' = [wveh EXCEPT ![t] = v]
               /\ pc' = [pc EXCEPT ![t] = "assign"]
               /\ UNCHANGED <<wjob, queue, ret>>
    /\ UNCHANGED <<vehicles, ledgerVars, sim>>

\* assignJob, second call: POST /vehicles/{id}/assign.
Assign(t) ==
    /\ pc[t] = "assign"
    /\ LET r == FleetAssignJob(vehicles, wveh[t], wjob[t])
       IN  /\ vehicles' = r.vehicles
           /\ IF r.ok
              THEN /\ pc' = [pc EXCEPT ![t] = "update"]
                   /\ UNCHANGED <<wjob, wveh, queue, ret>>
              ELSE Done(t, NoVehicle)
    /\ UNCHANGED <<ledgerVars, sim>>

\* assignJob, third call: the ledger's UpdateJobStatus.
Update(t) ==
    /\ pc[t] = "update"
    /\ jobs' = UpdateJobStatus(jobs, wjob[t], "assigned", wveh[t]).jobs
    /\ Done(t, wveh[t])
    /\ UNCHANGED <<vehicles, jobCounter, sim>>

\* Start: registerWithFleet; the simulation loop starts once it succeeds.
Register(v) ==
    /\ sim[v].pc = "boot"
    /\ LET s == sim[v]
           r == CreateVehicle(vehicles, v,
                    Vehicle(s.region, s.Status, s.BatteryLevel,
                            s.BatteryRangeKm, s.loc, NoJob))
       IN  /\ vehicles' = r.vehicles
           /\ sim' = [sim EXCEPT ![v].pc = IF r.ok THEN "work" ELSE "boot"]
    /\ UNCHANGED <<ledgerVars, ret, orchVars>>

\* simulationLoop, first half of a tick: checkForJobs and the behaviour.
TickWork(v) ==
    /\ sim[v].pc = "work"
    /\ \E b \in TickBehaviour(sim[v], v, jobs) :
          /\ sim' = [sim EXCEPT ![v] = [b.sim EXCEPT !.pc = "report"]]
          /\ jobs' = b.jobs
    /\ UNCHANGED <<vehicles, jobCounter, ret, orchVars>>

\* simulationLoop, second half of a tick: reportToFleet and the low-battery
\* check.
TickReport(v) ==
    /\ sim[v].pc = "report"
    /\ vehicles' = UpdateVehicleLocationAndStatus(vehicles, v, sim[v].loc,
                                                  sim[v].Status).vehicles
    /\ sim' = [sim EXCEPT ![v] = [LowBatteryCheck(sim[v]) EXCEPT !.pc = "work"]]
    /\ UNCHANGED <<ledgerVars, ret, orchVars>>

SpawnLevels == {990}
SpawnPlaces == {0}
JobInputs ==
    {<<"ride", "us-west-2", 0, 0>>, <<"delivery", "us-west-2", 0, 100>>}

Init ==
    /\ vehicles = EmptyMap
    /\ jobs = EmptyMap
    /\ jobCounter = 0
    /\ ret = NoReturn
    /\ IdleOrch
    /\ sim \in [SimFleet -> {NewVehicle(SpawnRegion, l, p) :
                                l \in SpawnLevels, p \in SpawnPlaces}]

Next ==
    \/ \E v \in SimFleet : Register(v)
    \/ \E v \in SimFleet : TickWork(v)
    \/ \E v \in SimFleet : TickReport(v)
    \/ \E in \in JobInputs : CreateStart(in[1], in[2], in[3], in[4])
    \/ SweepStart
    \/ \E t \in Threads : Find(t)
    \/ \E t \in Threads : Assign(t)
    \/ \E t \in Threads : Update(t)

Spec == Init /\ [][Next]_vars

\* C3: the dispatcher does not reserve the vehicle it returns: the call
\* that obtains a vehicle leaves the directory as it was, so the vehicle is
\* still available to a concurrent attempt; the assignment that follows
\* succeeds whatever the vehicle already carries, and the ledger then holds
\* the attempt's job as assigned to that vehicle.
C3_DispatchDoesNotReserve ==
    [][\A t \in Threads :
          /\ (pc[t] = "find" /\ pc'[t] = "assign") =>
                /\ vehicles' = vehicles
                /\ vehicles'[wveh'[t]].status = "available"
          /\ (pc[t] = "assign" /\ pc'[t] = "update") =>
                /\ vehicles'[wveh[t]].status = "busy"
                /\ vehicles'[wveh[t]].currentJobId = wjob[t]
          /\ (pc[t] = "update" /\ pc'[t] # "update") =>
                /\ jobs'[wjob[t]].status = "assigned"
                /\ jobs'[wjob[t]].assignedVehicleId = wveh[t]]_vars

\* A creation and a sweep hold the same vehicle, which no assignment has
\* touched yet, each for its own job.
C3_Witness ==
    /\ pc["create"] = "assign"
    /\ pc["sweep"] = "assign"
    /\ wveh["create"] = wveh["sweep"]
    /\ wjob["create"] # wjob["sweep"]
    /\ vehicles[wveh["create"]].status = "available"
    /\ vehicles[wveh["create"]].currentJobId = NoJob

\* C5: in the fleet directory a vehicle's current job id is non-null exactly
\* when its status is busy.
C5_JobIdIffBusy ==
    \A v \in DOMAIN vehicles :
        (vehicles[v].currentJobId # NoJob) <=> (vehicles[v].status = "busy")

\* C6: a job's status only moves forward: no step takes a job from assigned
\* or completed back to pending, or from completed back to assigned.
C6_StatusMovesForward ==
    [][\A id \in DOMAIN jobs :
          /\ (jobs[id].status \in {"assigned", "completed"})
                => jobs'[id].status # "pending"
          /\ (jobs[id].status = "completed")
                => jobs'[id].status # "assigned"]_vars

---------------------------------------------------------------------------
(***************************************************************************)
(* SerialSpec: one vehicle, its simulator running and reporting, and a     *)
(* client creating jobs one after another; the sweep finds nothing to do   *)
(* and is left out.                                                        *)
(***************************************************************************)
SerialNext ==
    \/ \E v \in SimFleet : Register(v)
    \/ \E v \in SimFleet : TickWork(v)
    \/ \E v \in SimFleet : TickReport(v)
    \/ \E in \in JobInputs : CreateStart(in[1], in[2], in[3], in[4])
    \/ Find("create")
    \/ Assign("create")
    \/ Update("create")

SerialSpec == Init /\ [][SerialNext]_vars

\* C4: with a single vehicle and jobs created one after another, at most one
\* job of the ledger is assigned at any moment.
C4_AtMostOneAssigned ==
    Cardinality(GetJobsByStatus(jobs, "assigned")) <= 1

---------------------------------------------------------------------------
(***************************************************************************)
(* LiveSpec: the same programs under the scheduling the code provides.     *)
(* The JobProcessor's ticker fires every 5 s and the simulator's every     *)
(* 2 s, and a request being served runs on to its response, so every step  *)
(* of the sweep, of a vehicle and of a creation in flight is taken if it   *)
(* stays possible; nothing obliges the client to send a request.  The      *)
(* vehicle spawns two hundred units from the station with 73 % and the     *)
(* client asks for rides at 500, five hundred units from the station.      *)
(***************************************************************************)
LiveSpawnLevels == {730}
LiveSpawnPlaces == {200}
LiveJobInputs == {<<"ride", "us-west-2", 500, 500>>}

LiveInit ==
    /\ vehicles = EmptyMap
    /\ jobs = EmptyMap
    /\ jobCounter = 0
    /\ ret = NoReturn
    /\ IdleOrch
    /\ sim \in [SimFleet -> {NewVehicle(SpawnRegion, l, p) :
                                l \in LiveSpawnLevels, p \in LiveSpawnPlaces}]

LiveNext ==
    \/ \E v \in SimFleet : Register(v)
    \/ \E v \in SimFleet : TickWork(v)
    \/ \E v \in SimFleet : TickReport(v)
    \/ \E in \in LiveJobInputs : CreateStart(in[1], in[2], in[3], in[4])
    \/ SweepStart
    \/ \E t \in Threads : Find(t)
    \/ \E t \in Threads : Assign(t)
    \/ \E t \in Threads : Update(t)

LiveFairness ==
    /\ WF_vars(SweepStart)
    /\ \A t \in Threads :
          WF_vars(Find(t)) /\ WF_vars(Assign(t)) /\ WF_vars(Update(t))
    /\ \A v \in SimFleet :
          WF_vars(Register(v)) /\ WF_vars(TickWork(v)) /\ WF_vars(TickReport(v))

LiveSpec == LiveInit /\ [][LiveNext]_vars /\ LiveFairness

C8_AssignedIsCompleted ==
    \A id \in JobIDs :
        (id \in DOMAIN jobs /\ jobs[id].status = "assigned")
            ~> (id \in DOMAIN jobs /\ jobs[id].status = "completed")

---------------------------------------------------------------------------
(***************************************************************************)
(* SimSpec: one vehicle's simulation loop with the ledger it polls.  The   *)
(* station of the region is at place 0; the vehicle spawns at 680 with     *)
(* 73 % or 74 % and a client creates, one after another, rides at 980 and  *)
(* deliveries from 880 to 980.  The dispatcher accepts them from 680; the  *)
(* vehicle reaches the end of the delivery with 14 %, or runs low at the   *)
(* pickup of the ride, drops it, runs empty on the way to the station,     *)
(* charges, and starts the ride again from the station, 784 km away.  The  *)
(* simulator's ticker fires every 2 s: the steps of a tick are taken if    *)
(* they stay possible.                                                     *)
(***************************************************************************)
SimSpawnLevels == {730, 740}
SimSpawnPlaces == {680}
SimJobInputs ==
    {<<"ride", "us-west-2", 980, 980>>, <<"delivery", "us-west-2", 880, 980>>}

SimInit ==
    /\ vehicles = EmptyMap
    /\ jobs = EmptyMap
    /\ jobCounter = 0
    /\ ret = NoReturn
    /\ IdleOrch
    /\ sim \in [SimFleet -> {NewVehicle(SpawnRegion, l, p) :
                                l \in SimSpawnLevels, p \in SimSpawnPlaces}]

SimNext ==
    \/ \E v \in SimFleet : Register(v)
    \/ \E v \in SimFleet : TickWork(v)
    \/ \E v \in SimFleet : TickReport(v)
    \/ \E in \in SimJobInputs : CreateStart(in[1], in[2], in[3], in[4])
    \/ Find("create")
    \/ Assign("create")
    \/ Update("create")

SimFairness ==
    \A v \in SimFleet :
        WF_vars(Register(v)) /\ WF_vars(TickWork(v)) /\ WF_vars(TickReport(v))

SimSpec == SimInit /\ [][SimNext]_vars /\ SimFairness

\* The step is the first half of a tick of vehicle v, or its second half.
IsTickWork(v) == sim[v].pc = "work" /\ sim'[v].pc = "report"
IsTickReport(v) == sim[v].pc = "report" /\ sim'[v].pc = "work"

\* C13: a busy vehicle reaches its job's pickup before its destination: it
\* enters the delivery phase only standing at the pickup of its job, routed
\* to the destination, and only a vehicle in the delivery phase arriving at
\* the destination completes the job in the ledger, clears its job and
\* becomes available; no other tick touches the ledger.
C13_PickupBeforeDestination ==
    [][\A v \in SimFleet :
          IsTickWork(v) =>
             LET s == sim[v]
                 n == sim'[v]
             IN  /\ (n.jobPhase = "delivery" /\ s.jobPhase # "delivery") =>
                        /\ n.Status = "busy"
                        /\ n.currentJob # NoJob
                        /\ n.loc = jobs[n.currentJob].pickup
                        /\ n.target = jobs[n.currentJob].dest
                 /\ (s.currentJob # NoJob /\ n.Status = "available") =>
                        /\ s.jobPhase = "delivery"
                        /\ n.loc = jobs[s.currentJob].dest
                        /\ n.currentJob = NoJob
                        /\ n.jobPhase = "idle"
                        /\ jobs' = CompleteJob(jobs, s.currentJob).jobs
                 /\ jobs' # jobs =>
                        /\ s.jobPhase = "delivery"
                        /\ n.loc = jobs[s.currentJob].dest
                        /\ n.Status = "available"]_vars

\* The vehicle has just completed a delivery: it stands at the destination,
\* away from the pickup, available and without a job, and the ledger holds
\* the job as completed.
C13_Witness ==
    \E v \in SimFleet, id \in DOMAIN jobs :
        /\ sim[v].pc = "report"
        /\ sim[v].Status = "available"
        /\ sim[v].currentJob = NoJob
        /\ jobs[id].status = "completed"
        /\ jobs[id].assignedVehicleId = v
        /\ jobs[id].pickup # jobs[id].dest
        /\ sim[v].loc = jobs[id].dest

\* C14: a tick that finds a busy vehicle at or below 15 % drops the job
\* without a call to the ledger and without moving, and the vehicle ends
\* the tick in status charging, phase going_to_charge, holding no job.
C14_CriticalBatteryDropsJob ==
    [][\A v \in SimFleet :
          /\ (IsTickWork(v) /\ sim[v].Status = "busy"
                 /\ sim[v].currentJob # NoJob
                 /\ sim[v].BatteryLevel <= CriticalBattery) =>
                /\ sim'[v].Status = "charging"
                /\ sim'[v].jobPhase = "going_to_charge"
                /\ sim'[v].currentJob = NoJob
                /\ sim'[v].loc = sim[v].loc
                /\ sim'[v].BatteryLevel = sim[v].BatteryLevel
                /\ jobs' = jobs
          /\ (IsTickReport(v) /\ sim[v].Status = "charging") =>
                sim'[v] = [sim[v] EXCEPT !.pc = "work"]]_vars

\* The vehicle has just dropped a job at or below 15 %: it is set for the
\* station with the route not yet begun, and the ledger still holds a job
\* assigned to it.
C14_Witness ==
    \E v \in SimFleet, id \in DOMAIN jobs :
        /\ sim[v].pc = "report"
        /\ sim[v].Status = "charging"
        /\ sim[v].jobPhase = "going_to_charge"
        /\ sim[v].currentJob = NoJob
        /\ sim[v].routeIndex = 0
        /\ sim[v].BatteryLevel <= CriticalBattery
        /\ sim[v].BatteryLevel > 0
        /\ jobs[id].status = "assigned"
        /\ jobs[id].assignedVehicleId = v

C16_ChargingSteps ==
    /\ [][\A v \in SimFleet :
             (IsTickWork(v) /\ sim[v].Status = "charging"
                /\ sim[v].jobPhase = "charging") =>
                IF sim[v].BatteryLevel < FullBattery
                THEN sim'[v] = [sim[v] EXCEPT
                        !.BatteryLevel = @ + ChargeStep,
                        !.BatteryRangeKm = (sim[v].BatteryLevel + ChargeStep)
                                              * batteryDrainRate,
                        !.pc = "report"]
                ELSE sim'[v] = [sim[v] EXCEPT
                        !.Status = "available", !.isMoving = FALSE,
                        !.jobPhase = "idle", !.pc = "report"]]_vars
    /\ \A v \in SimFleet :
          (v \in DOMAIN sim /\ sim[v].Status = "charging"
              /\ sim[v].jobPhase = "charging")
            ~> (sim[v].Status = "available" /\ sim[v].jobPhase = "idle")

\* The vehicle has just finished charging: available, idle, at the station
\* with 95 %.
C16_Witness ==
    \E v \in SimFleet :
        /\ sim[v].pc = "report"
        /\ sim[v].Status = "available"
        /\ sim[v].jobPhase = "idle"
        /\ sim[v].BatteryLevel = FullBattery
        /\ sim[v].loc = GetChargingStations(sim[v].region)[1]

\* Where the next movement step along its route takes the vehicle, and the
\* battery that step costs.
NextPosition(s) == moveAlongRoute([s EXCEPT !.BatteryLevel = 100 * FullBattery]).loc
StepCost(s) == calculateDistance(s.loc, NextPosition(s)) \div batteryDrainRate

C18_StrandedIsRescued ==
    [][\A v \in SimFleet :
          LET s == sim[v]
              n == sim'[v]
          IN  /\ (IsTickWork(v) /\ s.Status = "maintenance"
                     /\ s.jobPhase = "stranded") =>
                    /\ n.BatteryLevel = RescueBattery
                    /\ n.Status = "charging"
                    /\ n.jobPhase = "going_to_charge"
                    /\ n.target = FindNearestChargingStation(s.loc, s.region)
                    /\ n.isMoving
                    /\ n.loc = s.loc
              /\ (IsTickReport(v) /\ s.jobPhase = "going_to_charge") =>
                    (n.Status = "charging" /\ n.jobPhase = "going_to_charge")
              /\ (IsTickWork(v) /\ n.jobPhase = "stranded") =>
                    s.jobPhase # "stranded"]_vars

\* Roadside assistance has just come: 20 %, set for the station, the route
\* not yet begun.
C18_Witness ==
    \E v \in SimFleet :
        /\ sim[v].pc = "report"
        /\ sim[v].Status = "charging"
        /\ sim[v].jobPhase = "going_to_charge"
        /\ sim[v].BatteryLevel = RescueBattery
        /\ sim[v].routeIndex = 0
        /\ sim[v].isMoving
        /\ sim[v].loc # sim[v].target


\* C19: a vehicle takes up a job only in a tick that finds it available
\* without a job, and only a job the ledger holds as assigned to this very
\* vehicle; the tick leaves it busy, in phase pickup, routed to the job's
\* pickup point. A job it holds is only ever given up, never exchanged.
C19_JobBeginsOnlyWhenAvailable ==
    [][\A v \in SimFleet :
          LET s == sim[v]
              n == sim'[v]
          IN  /\ (s.currentJob = NoJob /\ n.currentJob # NoJob) =>
                    /\ IsTickWork(v)
                    /\ s.Status = "available"
                    /\ n.currentJob \in DOMAIN jobs
                    /\ jobs[n.currentJob].status = "assigned"
                    /\ jobs[n.currentJob].assignedVehicleId = v
                    /\ n.Status = "busy"
                    /\ n.jobPhase = "pickup"
                    /\ n.target = jobs[n.currentJob].pickup
                    /\ n.isMoving
              /\ s.currentJob # NoJob =>
                    n.currentJob \in {s.currentJob, NoJob}]_vars

\* The vehicle has just taken up a job: busy, on the first leg of the route
\* to the pickup, and the ledger holds that job as assigned to it.
C19_Witness ==
    \E v \in SimFleet :
        /\ sim[v].pc = "report"
        /\ sim[v].Status = "busy"
        /\ sim[v].jobPhase = "pickup"
        /\ sim[v].routeIndex = 1
        /\ sim[v].currentJob \in DOMAIN jobs
        /\ jobs[sim[v].currentJob].status = "assigned"
        /\ jobs[sim[v].currentJob].assignedVehicleId = v
        /\ sim[v].target = jobs[sim[v].currentJob].pickup

\* C20: in the simulator the range is at every moment the battery level
\* times the drain rate: every change of the level (drain of a movement
\* step, charging step, roadside reset, teleport reset) recomputes it, and
\* it never changes on its own.
C20_RangeFollowsLevel ==
    \A v \in SimFleet :
        sim[v].BatteryRangeKm = sim[v].BatteryLevel * batteryDrainRate

\* The level has been through a drain, a depletion on the way to the
\* station with the teleport reset, and charging steps.
C20_Witness ==
    \E v \in SimFleet :
        /\ sim[v].Status = "charging"
        /\ sim[v].jobPhase = "charging"
        /\ sim[v].BatteryLevel = TeleportBattery + ChargeStep
        /\ sim[v].BatteryRangeKm = (TeleportBattery + ChargeStep) * batteryDrainRate
        /\ sim[v].loc = GetChargingStations(sim[v].region)[1]


\* C22: in every reachable state of a vehicle simulator the battery level
\* lies between 0 % and 100 %, both included.
C22_BatteryWithinBounds ==
    \A v \in SimFleet :
        sim[v].BatteryLevel >= 0 /\ sim[v].BatteryLevel <= 1000

\* The highest level charging reaches: the charging step that took the
\* battery to 95 % or more, on a vehicle the ledger has given a job.
C22_Witness ==
    \E v \in SimFleet :
        /\ sim[v].Status = "charging"
        /\ sim[v].jobPhase = "charging"
        /\ sim[v].pc = "report"
        /\ sim[v].BatteryLevel >= FullBattery
        /\ \E id \in DOMAIN jobs : jobs[id].assignedVehicleId = v

---------------------------------------------------------------------------
(***************************************************************************)
(* DrainSpec: drainBattery alone.  The vehicle is drawn as NewVehicle      *)
(* leaves it (60 % or 100 %), idle or sent to charge, and each step is one *)
(* call of drainBattery with a distance drawn from DrainDistances.  The    *)
(* distances are whole multiples of the drain rate, in hectometres, so     *)
(* that the quotient the code computes as a float is a whole number of     *)
(* tenths of a point: 0.4 km costs 0.1 point.                              *)
(***************************************************************************)
DrainLevels == {600, 1000}
DrainDistances == {0, 4, 40, 1000, 8000}

DrainInit ==
    /\ vehicles = EmptyMap
    /\ jobs = EmptyMap
    /\ jobCounter = 0
    /\ ret = NoReturn
    /\ IdleOrch
    /\ sim \in [SimFleet ->
                  UNION {{[NewVehicle(SpawnRegion, l, 100) EXCEPT !.pc = "work"],
                          goToCharge([NewVehicle(SpawnRegion, l, 100)
                                         EXCEPT !.pc = "work"])} :
                            l \in DrainLevels}]

DrainBatteryCall(v, km) ==
    /\ sim' = [sim EXCEPT ![v] = drainBattery(sim[v], km)]
    /\ ret' = [op |-> "drain", vehicle |-> v, km |-> km]
    /\ UNCHANGED <<vehicles, ledgerVars, orchVars>>

DrainNext == \E v \in SimFleet, km \in DrainDistances : DrainBatteryCall(v, km)

DrainSpec == DrainInit /\ [][DrainNext]_vars

\* C21 as stated: drainBattery(km) leaves the level at
\* max(0, level - km / rate), with no rounding, and at exactly 0 when the
\* drain is larger than the charge left.
C21_DrainClampsToZero ==
    [][\A v \in SimFleet :
          (ret'.op = "drain" /\ ret'.vehicle = v) =>
              LET left == sim[v].BatteryLevel * batteryDrainRate - ret'.km
              IN  sim'[v].BatteryLevel * batteryDrainRate = Max(0, left)]_vars

\* C21, amended: drainBattery(km) with km > 0 leaves the level at
\* level - km / rate, with no rounding, while that is positive; when it is
\* not, the level is left at exactly 0, except for a vehicle in status
\* charging, phase going_to_charge, which the depletion handling called by
\* drainBattery leaves at 5 %.  A drain of 0 km changes nothing.
C21_DrainIsExact ==
    [][\A v \in SimFleet :
          (ret'.op = "drain" /\ ret'.vehicle = v) =>
              LET s == sim[v]
                  n == sim'[v]
                  left == s.BatteryLevel * batteryDrainRate - ret'.km
              IN  IF left > 0
                  THEN n.BatteryLevel * batteryDrainRate = left
                  ELSE IF s.Status = "charging" /\ s.jobPhase = "going_to_charge"
                       THEN n.BatteryLevel = TeleportBattery
                       ELSE n.BatteryLevel = 0]_vars

\* A drain of 0.4 km has lowered the level by a tenth of a point, leaving a
\* level that is not a whole number of points.
C21_Witness ==
    \E v \in SimFleet :
        /\ ret.op = "drain"
        /\ ret.km = batteryDrainRate
        /\ sim[v].BatteryLevel % 10 = 9


---------------------------------------------------------------------------
(***************************************************************************)
(* StartSpec: the start-up of a vehicle.  Start calls                      *)
(* registerWithFleetRetry and starts the simulation loop only when it      *)
(* returns no error.  The vehicle's record carries the locals of the retry *)
(* loop (attempt, delay), the time gone since the 5-minute context was     *)
(* made (elapsed) and the error Start returns (startErr).  Time is in      *)
(* units of 1/256 s, in which the delays 1 s * 1.5^k of the nine waits are *)
(* whole numbers.  An attempt (http.Post, which has no timeout of its own) *)
(* takes a time drawn from AttemptDurations and either does not reach the  *)
(* fleet service or is served by it.                                       *)
(***************************************************************************)
TimeUnitsPerSecond == 256
maxRetries == 10
baseDelay == 256            \* 1 s
maxDelay == 7680            \* 30 s
registrationTimeout == 76800    \* 5 min
AttemptDurations == {0, 2560, 25000}
AttemptOutcomes == {"unreachable", "served"}

StartingVehicle ==
    [pc |-> "boot", attempt |-> 0, delay |-> baseDelay, elapsed |-> 0,
     startErr |-> "none"] @@ NewVehicle(SpawnRegion, 990, 100)

StartInit ==
    /\ vehicles = EmptyMap
    /\ jobs = EmptyMap
    /\ jobCounter = 0
    /\ ret = NoReturn
    /\ IdleOrch
    /\ sim = [v \in SimFleet |-> StartingVehicle]

\* Mutant: Start logs the error of the registration and starts the loop.
Start_swallowsError(s, err) == [s EXCEPT !.pc = "work", !.startErr = err]

\* Start: the error of registerWithFleetRetry is returned; without one the
\* simulation loop is started.
Start(s, err) ==
    IF err # "none" THEN [s EXCEPT !.pc = "failed", !.startErr = err]
    ELSE [s EXCEPT !.pc = "work"]

\* One pass of the retry loop up to its wait: the call of registerWithFleet
\* and what follows its return.
RegisterAttempt(v, duration, outcome) ==
    /\ sim[v].pc = "boot"
    /\ sim[v].attempt < maxRetries
    /\ LET s == [sim[v] EXCEPT !.elapsed = @ + duration]
           r == IF outcome = "served"
                THEN CreateVehicle(vehicles, v,
                         Vehicle(s.region, s.Status, s.BatteryLevel,
                                 s.BatteryRangeKm, s.loc, NoJob))
                ELSE [ok |-> FALSE, vehicles |-> vehicles]
       IN  /\ vehicles' = r.vehicles
           /\ sim' = [sim EXCEPT ![v] =
                         IF r.ok THEN Start(s, "none")
                         ELSE IF s.attempt = maxRetries - 1
                              THEN Start(s, "registration failed")
                              ELSE [s EXCEPT !.pc = "wait"]]
    /\ UNCHANGED <<ledgerVars, ret, orchVars>>

\* The wait between two attempts: the select on the context and the timer,
\* then the growth of the delay.  When both fire at the same instant either
\* may win.
RegisterWait(v) ==
    /\ sim[v].pc = "wait"
    /\ LET s == sim[v]
           grown == (s.delay * 3) \div 2
       IN  \/ /\ s.elapsed + s.delay >= registrationTimeout
              /\ sim' = [sim EXCEPT ![v] =
                            Start([s EXCEPT !.elapsed =
                                      Max(s.elapsed, registrationTimeout)],
                                  "registration timeout")]
           \/ /\ s.elapsed + s.delay <= registrationTimeout
              /\ sim' = [sim EXCEPT ![v] =
                            [s EXCEPT !.elapsed = @ + s.delay,
                                      !.delay = IF grown > maxDelay
                                                THEN maxDelay ELSE grown,
                                      !.attempt = @ + 1,
                                      !.pc = "boot"]]
    /\ UNCHANGED <<vehicles, ledgerVars, ret, orchVars>>

StartNext ==
    \/ \E v \in SimFleet, d \in AttemptDurations, o \in AttemptOutcomes :
          RegisterAttempt(v, d, o)
    \/ \E v \in SimFleet : RegisterWait(v)
    \/ \E v \in SimFleet : TickWork(v)
    \/ \E v \in SimFleet : TickReport(v)

StartSpec == StartInit /\ [][StartNext]_vars


\* C23: start-up makes at most 10 registration attempts (each attempt has
\* its own index below 10), makes none after the first that succeeds, and
\* when the last attempt fails, or the deadline passes during a wait, Start
\* returns an error and the simulation loop never runs: the vehicle never
\* ticks.
C23_RegistrationIsBounded ==
    [][\A v \in SimFleet :
          LET s == sim[v]
              n == sim'[v]
              attempted == s.pc = "boot" /\ n.pc # "boot"
          IN  /\ attempted => s.attempt \in 0..(maxRetries - 1)
              /\ (s.pc = "wait" /\ n.pc = "boot") => n.attempt = s.attempt + 1
              /\ n.attempt # s.attempt => s.pc = "wait"
              /\ (attempted /\ n.pc = "work") =>
                    /\ v \notin DOMAIN vehicles
                    /\ v \in DOMAIN vehicles'
                    /\ n.startErr = "none"
              /\ (attempted /\ v \notin DOMAIN vehicles') =>
                    IF s.attempt = maxRetries - 1
                    THEN n.pc = "failed" /\ n.startErr # "none"
                    ELSE n.pc = "wait"
              /\ (s.pc = "wait" /\ s.elapsed + s.delay > registrationTimeout) =>
                    (n.pc = "failed" /\ n.startErr # "none")
              /\ s.pc \in {"work", "report"} =>
                    (n.pc \in {"work", "report"} /\ vehicles' = vehicles)
              /\ s.pc = "failed" => n = s
              /\ n.pc = "work" => n.startErr = "none"]_vars

\* All ten attempts were made and failed before the deadline: Start has
\* returned the error and the fleet directory does not know the vehicle.
C23_Witness ==
    \E v \in SimFleet :
        /\ sim[v].pc = "failed"
        /\ sim[v].attempt = maxRetries - 1
        /\ sim[v].startErr = "registration failed"
        /\ sim[v].elapsed < registrationTimeout
        /\ v \notin DOMAIN vehicles


---------------------------------------------------------------------------
(***************************************************************************)
(* ObserverSpec: the fleet directory seen by a concurrent reader.  The     *)
(* in-memory storage keeps pointers to its records: a query returns the    *)
(* pointers under the read lock, and the caller reads the fields after the *)
(* lock is released; UpdateVehicleStatus writes the fields of the same     *)
(* record one after the other under the write lock.  The writer is a       *)
(* request POST /vehicles/{id}/assign-job or /complete, the reader a       *)
(* request GET /vehicles/nearest whose answer is the JSON encoding of the  *)
(* record the dispatcher chose.  Unsynchronised reads and writes of one    *)
(* field are a data race; the model takes them in every interleaving.      *)
(***************************************************************************)
Observers == {"writer", "reader"}

ObserverInit ==
    /\ vehicles = [id \in SeqFleet |-> SeqRegistration(id)]
    /\ jobs = EmptyMap
    /\ jobCounter = 0
    /\ ret = NoReturn
    /\ pc = [o \in Observers |-> "idle"]
    /\ wjob = [o \in Observers |-> NoJob]
    /\ wveh = [o \in Observers |-> NoVehicle]
    /\ queue = <<>>
    /\ sim = EmptyMap

\* UpdateVehicleStatus, first part: m.mu.Lock(), the lookup, and
\* vehicle.Status = status.  AssignJob passes "busy" and the job,
\* CompleteJob "available" and nil.
UpdateStatusBegin(id, jobId) ==
    /\ pc["writer"] = "idle"
    /\ id \in DOMAIN vehicles
    /\ pc' = [pc EXCEPT !["writer"] = "locked"]
    /\ wveh' = [wveh EXCEPT !["writer"] = id]
    /\ wjob' = [wjob EXCEPT !["writer"] = jobId]
    /\ vehicles' = [vehicles EXCEPT ![id].status =
                       IF jobId = NoJob THEN "available" ELSE "busy"]
    /\ UNCHANGED <<ledgerVars, ret, queue, sim>>

\* UpdateVehicleStatus, second part: vehicle.CurrentJobID = jobID and the
\* unlock.
UpdateStatusEnd ==
    /\ pc["writer"] = "locked"
    /\ vehicles' = [vehicles EXCEPT ![wveh["writer"]].currentJobId = wjob["writer"]]
    /\ pc' = [pc EXCEPT !["writer"] = "idle"]
    /\ wveh' = [wveh EXCEPT !["writer"] = NoVehicle]
    /\ wjob' = [wjob EXCEPT !["writer"] = NoJob]
    /\ UNCHANGED <<ledgerVars, ret, queue, sim>>

\* FindNearestVehicle, first part: the query under the read lock (it waits
\* while a writer holds the lock) and the dispatcher's choice; the handler
\* is left holding the pointer to the chosen record.
NearestQuery(region, pickup, trip) ==
    /\ pc["reader"] = "idle"
    /\ pc["writer"] = "idle"
    /\ \E v \in FindNearestAvailableVehicle(vehicles, region, pickup, trip) :
          /\ v # NoVehicle
          /\ wveh' = [wveh EXCEPT !["reader"] = v]
    /\ pc' = [pc EXCEPT !["reader"] = "encode"]
    /\ ret' = NoReturn
    /\ UNCHANGED <<vehicles, ledgerVars, wjob, queue, sim>>

\* The encoder reads the field Status of the record.
EncodeStatus ==
    /\ pc["reader"] = "encode"
    /\ ret' = [op |-> "nearest", vehicle |-> wveh["reader"],
               status |-> vehicles[wveh["reader"]].status]
    /\ pc' = [pc EXCEPT !["reader"] = "encodeJob"]
    /\ UNCHANGED <<vehicles, ledgerVars, wjob, wveh, queue, sim>>

\* The encoder reads the field CurrentJobID, and the answer is sent.
EncodeJob ==
    /\ pc["reader"] = "encodeJob"
    /\ ret' = [op |-> "nearest", vehicle |-> ret.vehicle, status |-> ret.status,
               currentJobId |-> vehicles[wveh["reader"]].currentJobId]
    /\ pc' = [pc EXCEPT !["reader"] = "idle"]
    /\ wveh' = [wveh EXCEPT !["reader"] = NoVehicle]
    /\ UNCHANGED <<vehicles, ledgerVars, wjob, queue, sim>>

ObserverNext ==
    \/ \E id \in SeqFleet, jobId \in FleetJobIDs \cup {NoJob} :
          UpdateStatusBegin(id, jobId)
    \/ UpdateStatusEnd
    \/ \E pickup \in Places : NearestQuery("us-west-2", pickup, 0)
    \/ EncodeStatus
    \/ EncodeJob

ObserverSpec == ObserverInit /\ [][ObserverNext]_vars

\* C24: no reader sees an update half-applied.  The only updates of this
\* specification are those of AssignJob (busy with the job) and CompleteJob
\* (available with no job), on records registered available with no job:
\* between two updates a record is busy exactly when it has a job, so an
\* answer showing a busy vehicle without a job, or an available one with a
\* job, shows a state that only exists inside an update.
C24_NoHalfAppliedUpdate ==
    (ret.op = "nearest" /\ pc["reader"] = "idle") =>
        (ret.status = "busy" <=> ret.currentJobId # NoJob)


---------------------------------------------------------------------------
(***************************************************************************)
(* IdSpec: job creation by concurrent callers of the job service, an HTTP  *)
(* request and the demo generator.  generateJobID is `jobCounter++` and    *)
(* `return jobCounter` on a package variable with no lock: a load, a       *)
(* store and a second load, taken here in every interleaving.  The         *)
(* caller's loaded value is kept in queue, the id it was given in wjob.    *)
(***************************************************************************)
Callers == {"http", "demo"}
IdJobInput == <<"us-west-2", 0, 100>>

IdInit ==
    /\ vehicles = EmptyMap
    /\ jobs = EmptyMap
    /\ jobCounter = 0
    /\ ret = NoReturn
    /\ pc = [c \in Callers |-> "idle"]
    /\ wjob = [c \in Callers |-> NoJob]
    /\ wveh = [c \in Callers |-> NoVehicle]
    /\ queue = [c \in Callers |-> 0]
    /\ sim = EmptyMap

\* generateJobID: the load of jobCounter++.
LoadCounter(c, type) ==
    /\ pc[c] = "idle"
    /\ jobCounter < MaxJobs
    /\ queue' = [queue EXCEPT ![c] = jobCounter]
    /\ wjob' = [wjob EXCEPT ![c] = JobID(type, 0)]
    /\ pc' = [pc EXCEPT ![c] = "loaded"]
    /\ UNCHANGED <<vehicles, ledgerVars, ret, wveh, sim>>

\* generateJobID: the store of jobCounter++.
StoreCounter(c) ==
    /\ pc[c] = "loaded"
    /\ jobCounter' = generateJobID(queue[c])
    /\ pc' = [pc EXCEPT ![c] = "stored"]
    /\ UNCHANGED <<vehicles, jobs, ret, wjob, wveh, queue, sim>>

\* generateJobID: return jobCounter, and the id formatted from it.
ReturnCounter(c) ==
    /\ pc[c] = "stored"
    /\ wjob' = [wjob EXCEPT ![c] = JobID(wjob[c][1], jobCounter)]
    /\ pc' = [pc EXCEPT ![c] = "named"]
    /\ UNCHANGED <<vehicles, ledgerVars, ret, wveh, queue, sim>>

\* The rest of CreateRideJob / CreateDeliveryJob with the id obtained: the
\* job is stored (or the creation fails) and its assignment is tried.
StoreJob(c) ==
    /\ pc[c] = "named"
    /\ \E r \in CreateJob(vehicles, jobs, wjob[c][2] - 1, wjob[c][1],
                           IdJobInput[1], IdJobInput[2], IdJobInput[3]) :
          /\ vehicles' = r.vehicles
          /\ jobs' = r.jobs
          /\ ret' = [op |-> "create", err |-> r.err, job |-> r.job,
                     caller |-> c]
    /\ pc' = [pc EXCEPT ![c] = "idle"]
    /\ wjob' = [wjob EXCEPT ![c] = NoJob]
    /\ UNCHANGED <<jobCounter, wveh, queue, sim>>

IdNext ==
    \/ \E c \in Callers, type \in JobTypes : LoadCounter(c, type)
    \/ \E c \in Callers : StoreCounter(c)
    \/ \E c \in Callers : ReturnCounter(c)
    \/ \E c \in Callers : StoreJob(c)

IdSpec == IdInit /\ [][IdNext]_vars

\* C25: the ids given to concurrent callers are pairwise distinct, so no two
\* callers hold the same id and no creation fails because its id is taken.
C25_JobIdsAreUnique ==
    /\ \A c, d \in Callers :
          (c # d /\ pc[c] = "named" /\ pc[d] = "named") => wjob[c] # wjob[d]
    /\ ret.op = "create" => ~ret.err


---------------------------------------------------------------------------
(***************************************************************************)
(* StoreSpec: the storage layer called directly, as its tests call it.     *)
(* The fleet service runs on the in-memory vehicle storage (vehicles) and  *)
(* the job service on the key-value-table job storage (jobs holds the      *)
(* items of the table).  PutItem writes the item under its key, replacing  *)
(* an item already there; UpdateItem sets the named attributes of the item *)
(* under the key and makes the item when there is none.  Neither call is   *)
(* given a condition, and a table that answers returns no error.           *)
(***************************************************************************)
\* What GetJob unmarshals from an item that has none of the attributes.
ZeroJob ==
    [jobType |-> "", status |-> "", assignedVehicleId |-> NoVehicle,
     region |-> "", pickup |-> 0, dest |-> 0, estimatedDistanceKm |-> 0,
     assignedAt |-> NoTime, completedAt |-> NoTime,
     fareAmount |-> 0, baseFare |-> 0, distanceFare |-> 0]

\* DynamoDBJobStorage.CreateJob: PutItem.
DynamoCreateJob(js, id, job) == [ok |-> TRUE, jobs |-> (id :> job) @@ js]

\* DynamoDBJobStorage.UpdateJobStatus: UpdateItem with
\* SET #status = :status [, assigned_vehicle_id = :vehicleID].
DynamoUpdateJobStatus(js, id, status, vehicleId) ==
    LET item == IF id \in DOMAIN js THEN js[id] ELSE ZeroJob
    IN  [ok |-> TRUE,
         jobs |-> (id :> [item EXCEPT
                            !.status = status,
                            !.assignedVehicleId =
                                IF vehicleId # NoVehicle THEN vehicleId ELSE @])
                  @@ js]

StoreStatuses == {"assigned", "completed"}

StoreInit ==
    /\ vehicles = EmptyMap
    /\ jobs = EmptyMap
    /\ jobCounter = 0
    /\ ret = NoReturn
    /\ IdleOrch
    /\ sim = EmptyMap

\* JobStorage.CreateJob on the table.
TableCreateJobCall(id, region, pickup, dest) ==
    LET r == DynamoCreateJob(jobs, id,
                 CalculateFare(Job(id[1], region, pickup, dest)))
    IN  /\ jobs' = r.jobs
        /\ ret' = [op |-> "createJob", err |-> ~r.ok, job |-> id]
        /\ UNCHANGED <<vehicles, jobCounter, orchVars, sim>>

\* JobStorage.UpdateJobStatus on the table.
TableUpdateJobStatusCall(id, status, vehicleId) ==
    LET r == DynamoUpdateJobStatus(jobs, id, status, vehicleId)
    IN  /\ jobs' = r.jobs
        /\ ret' = [op |-> "updateStatus", err |-> ~r.ok, job |-> id]
        /\ UNCHANGED <<vehicles, jobCounter, orchVars, sim>>

StoreNext ==
    \/ \E id \in SeqFleet : RegisterVehicleCall(id)
    \/ \E id \in FleetJobIDs, in \in SeqJobInputs :
          TableCreateJobCall(id, in[2], in[3], in[4])
    \/ \E id \in FleetJobIDs, status \in StoreStatuses, v \in SeqFleet :
          TableUpdateJobStatusCall(id, status, v)

StoreSpec == StoreInit /\ [][StoreNext]_vars

\* C27: creating a vehicle or a job whose id is already present fails with
\* an error and leaves the stored record unchanged, in the in-memory store
\* and in the key-value-table store.
C27_DuplicateCreateFails ==
    [][/\ (ret'.op = "register" /\ ret'.vehicle \in DOMAIN vehicles) =>
             (ret'.err /\ vehicles' = vehicles)
       /\ (ret'.op = "createJob" /\ ret'.job \in DOMAIN jobs) =>
             (ret'.err /\ jobs' = jobs)]_vars

\* C28: the ledger's updateStatus of a stored job stamps assigned_at when
\* the new status is assigned and completed_at when it is completed.
C28_StatusUpdateStamps ==
    [][(ret'.op = "updateStatus" /\ ret'.job \in DOMAIN jobs) =>
          /\ jobs'[ret'.job].status = "assigned" =>
                jobs'[ret'.job].assignedAt = Stamped
          /\ jobs'[ret'.job].status = "completed" =>
                jobs'[ret'.job].completedAt = Stamped]_vars


---------------------------------------------------------------------------
(***************************************************************************)
(* RouteSpec: the routing service alone.  Each step is one call of         *)
(* GetRoute between two places, with the answer of the external routing    *)
(* server drawn from RouteResponses: the request fails, the body does not  *)
(* parse, the body lists no route, or it lists a route.  Here a route is   *)
(* the sequence of its points.                                             *)
(***************************************************************************)
RoutePlaces == {0, 100, 200, 490, 680, 980}

RouteResponses(start, end) ==
    {[kind |-> "network error"], [kind |-> "parse error"],
     [kind |-> "no routes"],
     [kind |-> "route", points |-> <<start, start + 10, end>>]}

\* The points of createStraightLineRoute: start + (end - start) * i / 10.
StraightLinePoints(start, end) ==
    [i \in 1..(RouteLastIndex + 1) |->
        RoutePoint(createStraightLineRoute(start, end), i - 1)]

\* Mutant: a failed request is returned as an error, without a route.
GetRoute_propagates(start, end, response) ==
    IF response.kind = "route"
    THEN [err |-> FALSE, points |-> response.points]
    ELSE IF response.kind = "network error"
    THEN [err |-> TRUE, points |-> <<>>]
    ELSE [err |-> FALSE, points |-> StraightLinePoints(start, end)]

\* GetRoute: [err, points].
GetRoute(start, end, response) ==
    IF response.kind = "network error"
    THEN [err |-> FALSE, points |-> StraightLinePoints(start, end)]
    ELSE IF response.kind = "parse error"
    THEN [err |-> FALSE, points |-> StraightLinePoints(start, end)]
    ELSE IF response.kind = "no routes"
    THEN [err |-> FALSE, points |-> StraightLinePoints(start, end)]
    ELSE [err |-> FALSE, points |-> response.points]

RouteInit ==
    /\ vehicles = EmptyMap
    /\ jobs = EmptyMap
    /\ jobCounter = 0
    /\ ret = NoReturn
    /\ IdleOrch
    /\ sim = EmptyMap

GetRouteCall(start, end, response) ==
    LET r == GetRoute(start, end, response)
    IN  /\ ret' = [op |-> "route", start |-> start, end |-> end,
                   response |-> response.kind, err |-> r.err,
                   points |-> r.points]
        /\ UNCHANGED <<vehicles, ledgerVars, orchVars, sim>>

RouteNext ==
    \E start \in RoutePlaces, end \in RoutePlaces :
        \E response \in RouteResponses(start, end) :
            GetRouteCall(start, end, response)

RouteSpec == RouteInit /\ [][RouteNext]_vars

\* C30: GetRoute never returns an error, and whenever the routing server's
\* answer is a failure (network error, parse error, no route) it returns
\* the straight-line route: 11 points, the first the start, the last the
\* end, each a tenth of the way further than the one before.
C30_RouteFallbackNeverFails ==
    ret.op = "route" =>
        /\ ~ret.err
        /\ ret.response # "route" =>
              /\ Len(ret.points) = 11
              /\ ret.points[1] = ret.start
              /\ ret.points[11] = ret.end
              /\ \A i \in 1..11 :
                    10 * (ret.points[i] - ret.start)
                        = (i - 1) * (ret.end - ret.start)

\* The request failed on the network and the answer is the straight line
\* between two different places.
C30_Witness ==
    /\ ret.op = "route"
    /\ ret.response = "network error"
    /\ ret.start # ret.end
    /\ Len(ret.points) = 11
    /\ ret.points[6] # ret.start


---------------------------------------------------------------------------
(***************************************************************************)
(* PriceSpec: CalculateFare alone.  Each step prices one job of a drawn    *)
(* type between two drawn points; amounts are in cents and distances in    *)
(* hectometres.                                                            *)
(***************************************************************************)
PricePlaces == {0, 1, 2, 5, 10, 25, 50, 100, 200, 490, 680, 980}

PriceInit ==
    /\ vehicles = EmptyMap
    /\ jobs = EmptyMap
    /\ jobCounter = 0
    /\ ret = NoReturn
    /\ IdleOrch
    /\ sim = EmptyMap

CalculateFareCall(type, pickup, dest) ==
    /\ ret' = [op |-> "fare",
               job |-> CalculateFare(Job(type, "us-west-2", pickup, dest))]
    /\ UNCHANGED <<vehicles, ledgerVars, orchVars, sim>>

PriceNext ==
    \E type \in JobTypes, pickup \in PricePlaces, dest \in PricePlaces :
        CalculateFareCall(type, pickup, dest)

PriceSpec == PriceInit /\ [][PriceNext]_vars

\* C31: a ride's fare is the base fare 2.50 plus 1.80 per km of its
\* distance, a delivery's the flat 8.99 with no distance part whatever the
\* distance; in both fare_amount = base_fare + distance_fare.
C31_FareFormula ==
    ret.op = "fare" =>
        LET j == ret.job
        IN  /\ j.fareAmount = j.baseFare + j.distanceFare
            /\ j.jobType = "ride" =>
                  /\ j.baseFare = 250
                  /\ 10 * j.distanceFare = 180 * j.estimatedDistanceKm
            /\ j.jobType = "delivery" =>
                  /\ j.baseFare = 899
                  /\ j.distanceFare = 0
                  /\ j.fareAmount = 899

\* A delivery over a distance has been priced at the flat rate.
C31_Witness ==
    /\ ret.op = "fare"
    /\ ret.job.jobType = "delivery"
    /\ ret.job.estimatedDistanceKm > 0
    /\ ret.job.fareAmount = DeliveryFlatRate


---------------------------------------------------------------------------
(***************************************************************************)
(* RaceSpec: two registered vehicles whose simulators are silent, a        *)
(* client creating jobs and the sweep (the JobProcessor's ticker or        *)
(* POST /jobs/process-pending), each running assignJob call by call.       *)
(***************************************************************************)
RaceJobInputs ==
    {<<"ride", "us-west-2", 0, 0>>, <<"delivery", "us-west-2", 100, 100>>}

RaceNext ==
    \/ \E id \in SeqFleet : RegisterVehicleCall(id)
    \/ \E in \in RaceJobInputs : CreateStart(in[1], in[2], in[3], in[4])
    \/ SweepStart
    \/ \E t \in Threads : Find(t)
    \/ \E t \in Threads : Assign(t)
    \/ \E t \in Threads : Update(t)

RaceSpec == SeqInit /\ [][RaceNext]_vars

\* C32: once a job is assigned its assigned_vehicle_id never changes, and no
\* two vehicles of the directory are busy with the same job id, also when
\* the creation's attempt and a sweep handle the same pending job.
C32_AssignedOnce ==
    [][/\ \A id \in DOMAIN jobs :
             jobs[id].assignedVehicleId # NoVehicle
                => jobs'[id].assignedVehicleId = jobs[id].assignedVehicleId
       /\ \A a, b \in DOMAIN vehicles' :
             (/\ a # b
              /\ vehicles'[a].status = "busy"
              /\ vehicles'[b].status = "busy"
              /\ vehicles'[a].currentJobId # NoJob)
                => vehicles'[a].currentJobId # vehicles'[b].currentJobId]_vars


---------------------------------------------------------------------------
(***************************************************************************)
(* AbandonSpec: the vehicle and the ride of LiveSpec, which the vehicle    *)
(* drops at 13 % at the pickup, with a second vehicle of the region        *)
(* registered in the directory at the pickup, fully charged.               *)
(***************************************************************************)
SpareVehicle == "v2"
SpareRegistration == Vehicle("us-west-2", "available", 990, 3960, 500, NoJob)

\* POST /vehicles for the second vehicle.
RegisterSpare ==
    LET r == CreateVehicle(vehicles, SpareVehicle, SpareRegistration)
    IN  /\ r.ok
        /\ vehicles' = r.vehicles
        /\ ret' = [op |-> "register", err |-> FALSE, vehicle |-> SpareVehicle]
        /\ UNCHANGED <<ledgerVars, orchVars, sim>>

AbandonNext ==
    \/ LiveNext
    \/ RegisterSpare

AbandonSpec == LiveInit /\ [][AbandonNext]_vars

\* C33: a job its vehicle has abandoned is never dispatched again: while
\* the ledger holds it assigned to a vehicle that is charging or in
\* maintenance, every step keeps its status assigned and its
\* assigned_vehicle_id, and the step in which a vehicle takes up a job of
\* the ledger is a poll of the vehicle the job is assigned to, made while
\* it is available, and begins with the pickup.
C33_AbandonedJobStaysWithVehicle ==
    [][\A id \in DOMAIN jobs :
          /\ (\E v \in SimFleet :
                 /\ jobs[id].status = "assigned"
                 /\ jobs[id].assignedVehicleId = v
                 /\ sim[v].Status \in {"charging", "maintenance"})
                => /\ jobs'[id].status = "assigned"
                   /\ jobs'[id].assignedVehicleId = jobs[id].assignedVehicleId
          /\ \A v \in SimFleet :
                (sim[v].currentJob # id /\ sim'[v].currentJob = id)
                   => /\ IsTickWork(v)
                      /\ jobs[id].status = "assigned"
                      /\ jobs[id].assignedVehicleId = v
                      /\ sim[v].Status = "available"
                      /\ sim'[v].Status = "busy"
                      /\ \/ sim'[v].jobPhase = "pickup"
                         \/ /\ sim'[v].jobPhase = "delivery"
                            /\ sim[v].loc = jobs[id].pickup]_vars


---------------------------------------------------------------------------
(***************************************************************************)
(* FailSpec: RaceSpec with a ledger whose status update can fail (the      *)
(* DynamoDB table returning an error from UpdateItem).                     *)
(***************************************************************************)
\* assignJob, third call, failing: the error is returned to the caller,
\* which prints it; nothing is undone.
UpdateFails(t) ==
    /\ pc[t] = "update"
    /\ Done(t, NoVehicle)
    /\ UNCHANGED <<vehicles, ledgerVars, sim>>

FailNext ==
    \/ RaceNext
    \/ \E t \in Threads : UpdateFails(t)

FailSpec == SeqInit /\ [][FailNext]_vars

\* C34: an assignment attempt that fails after the directory has marked
\* the vehicle busy does not leave it so: a vehicle is busy with the id of
\* a pending job only while an attempt on that job with that vehicle is
\* between its directory call and its ledger update.
C34_NoVehicleLeftBusy ==
    \A v \in DOMAIN vehicles, id \in DOMAIN jobs :
        (/\ vehicles[v].status = "busy"
         /\ vehicles[v].currentJobId = id
         /\ jobs[id].status = "pending")
            => \E t \in Threads :
                  pc[t] = "update" /\ wjob[t] = id /\ wveh[t] = v


---------------------------------------------------------------------------
\* C35: after each report of a vehicle the directory's battery_level and
\* battery_range_km for it, which the dispatcher compares with the required
\* distance, equal the simulator's current values.
C35_DirectoryBatteryFollows ==
    [][\A v \in SimFleet :
          (IsTickReport(v) /\ v \in DOMAIN vehicles') =>
              /\ vehicles'[v].batteryLevel = sim'[v].BatteryLevel
              /\ vehicles'[v].batteryRangeKm = sim'[v].BatteryRangeKm]_vars


---------------------------------------------------------------------------
\* C36: at every tick boundary of a simulator: status available implies no
\* held job and phase idle; status busy holds exactly when a job is held,
\* and then the phase is pickup or delivery; status charging implies phase
\* going_to_charge or charging; status maintenance implies phase stranded.
C36_StatusPhaseAgree ==
    \A v \in SimFleet :
        sim[v].pc = "work" =>
            /\ sim[v].Status = "available" =>
                  sim[v].currentJob = NoJob /\ sim[v].jobPhase = "idle"
            /\ (sim[v].Status = "busy") <=> (sim[v].currentJob # NoJob)
            /\ sim[v].Status = "busy" =>
                  sim[v].jobPhase \in {"pickup", "delivery"}
            /\ sim[v].Status = "charging" =>
                  sim[v].jobPhase \in {"going_to_charge", "charging"}
            /\ sim[v].Status = "maintenance" => sim[v].jobPhase = "stranded"

\* A vehicle stands stranded in maintenance at a tick boundary, and the
\* ledger holds a completed job: the simulator has been through busy,
\* available and maintenance.
C36_Witness ==
    \E v \in SimFleet :
        /\ sim[v].pc = "work"
        /\ sim[v].Status = "maintenance"
        /\ sim[v].jobPhase = "stranded"
        /\ \E id \in DOMAIN jobs : jobs[id].status = "completed"


---------------------------------------------------------------------------
(***************************************************************************)
(* LocationSpec: FleetSpec with the location report whose body carries     *)
(* only lat and lng.  The handler decodes the body into a struct with a    *)
(* status field, which is left at the empty string.                        *)
(***************************************************************************)
NoStatus == ""

\* PUT /vehicles/{id}/location with a body of lat and lng only.
LocationOnlyUpdateCall(id, lat) ==
    LET r == UpdateVehicleLocationAndStatus(vehicles, id, lat, NoStatus)
    IN  /\ vehicles' = r.vehicles
        /\ ret' = [op |-> "location", err |-> ~r.ok, vehicle |-> id]
        /\ UNCHANGED <<ledgerVars, orchVars, sim>>

LocationNext ==
    \/ FleetNext
    \/ \E id \in SeqFleet, lat \in Places : LocationOnlyUpdateCall(id, lat)

LocationSpec == SeqInit /\ [][LocationNext]_vars

\* C37: a location update that carries only lat and lng changes the
\* vehicle's location (and last_updated) and nothing else: its status and
\* current_job_id are afterwards what they were.
C37_LocationOnlyKeepsStatus ==
    [][(ret'.op = "location" /\ ~ret'.err) =>
          /\ vehicles'[ret'.vehicle].status = vehicles[ret'.vehicle].status
          /\ vehicles'[ret'.vehicle].currentJobId
                = vehicles[ret'.vehicle].currentJobId]_vars


---------------------------------------------------------------------------
(***************************************************************************)
(* ReturnSpec: the job service's creation as a whole handler, with the job *)
(* value it returns, for each configuration of the process: STORAGE_TYPE   *)
(* memory or dynamodb, with or without a Kinesis streamer.  The            *)
(* configuration is read once at start and kept in sim.  The in-memory     *)
(* store keeps the pointer it is handed, so the value the creation returns *)
(* is the ledger's record itself; the table store keeps a marshalled copy. *)
(***************************************************************************)
StorageTypes == {"memory", "dynamodb"}

ReturnInit ==
    /\ vehicles = EmptyMap
    /\ jobs = EmptyMap
    /\ jobCounter = 0
    /\ ret = NoReturn
    /\ IdleOrch
    /\ sim \in [storageType : StorageTypes, streamer : BOOLEAN]

\* The job object CreateRideJob / CreateDeliveryJob returns, after an
\* assignJob that found vehicle v and updated the ledger to js.
ReturnedJob(cfg, job, id, v, js) ==
    IF cfg.storageType = "memory" THEN js[id]
    ELSE IF cfg.streamer
    THEN [job EXCEPT !.status = "assigned", !.assignedVehicleId = v]
    ELSE job

\* POST /jobs: CreateRideJob / CreateDeliveryJob run to the response.
CreateAndReturn(type, region, pickup, dest) ==
    /\ jobCounter < MaxJobs
    /\ LET id == JobID(type, generateJobID(jobCounter))
           job == CalculateFare(Job(type, region, pickup, dest))
           made == IF sim.storageType = "memory"
                   THEN StorageCreateJob(jobs, id, job)
                   ELSE DynamoCreateJob(jobs, id, job)
       IN  /\ jobCounter' = generateJobID(jobCounter)
           /\ IF ~made.ok
              THEN /\ ret' = [op |-> "created", err |-> TRUE, job |-> id,
                              vehicle |-> NoVehicle, value |-> job]
                   /\ UNCHANGED <<vehicles, jobs>>
              ELSE \E v \in FindNearestAvailableVehicle(vehicles, region,
                               pickup, job.estimatedDistanceKm) :
                     IF v = NoVehicle
                     THEN /\ jobs' = made.jobs
                          /\ ret' = [op |-> "created", err |-> FALSE,
                                     job |-> id, vehicle |-> NoVehicle,
                                     value |-> job]
                          /\ UNCHANGED vehicles
                     ELSE LET js == IF sim.storageType = "memory"
                                    THEN UpdateJobStatus(made.jobs, id,
                                             "assigned", v).jobs
                                    ELSE DynamoUpdateJobStatus(made.jobs, id,
                                             "assigned", v).jobs
                          IN  /\ vehicles' = FleetAssignJob(vehicles, v, id).vehicles
                              /\ jobs' = js
                              /\ ret' = [op |-> "created", err |-> FALSE,
                                         job |-> id, vehicle |-> v,
                                         value |-> ReturnedJob(sim, job, id, v, js)]
    /\ UNCHANGED <<orchVars, sim>>

ReturnNext ==
    \/ \E id \in SeqFleet : RegisterVehicleCall(id)
    \/ \E in \in SeqJobInputs : CreateAndReturn(in[1], in[2], in[3], in[4])

ReturnSpec == ReturnInit /\ [][ReturnNext]_vars

\* C38: when the immediate assignment succeeds, the job value the creation
\* returns shows status assigned and the chosen vehicle id, as the ledger's
\* record does, for either storage backend and with or without a streamer.
C38_ReturnedJobIsAssigned ==
    (ret.op = "created" /\ ~ret.err /\ ret.vehicle # NoVehicle) =>
        /\ jobs[ret.job].status = "assigned"
        /\ jobs[ret.job].assignedVehicleId = ret.vehicle
        /\ ret.value.status = "assigned"
        /\ ret.value.assignedVehicleId = ret.vehicle


---------------------------------------------------------------------------
(***************************************************************************)
(* LostSpec: StartSpec with an attempt whose request reaches the fleet     *)
(* service and is served, while its response does not reach the simulator  *)
(* (the connection breaks): http.Post returns an error.                    *)
(***************************************************************************)
RegisterAttemptLost(v, duration) ==
    /\ sim[v].pc = "boot"
    /\ sim[v].attempt < maxRetries
    /\ LET s == [sim[v] EXCEPT !.elapsed = @ + duration]
           r == CreateVehicle(vehicles, v,
                    Vehicle(s.region, s.Status, s.BatteryLevel,
                            s.BatteryRangeKm, s.loc, NoJob))
       IN  /\ vehicles' = r.vehicles
           /\ sim' = [sim EXCEPT ![v] =
                         IF s.attempt = maxRetries - 1
                         THEN Start(s, "registration failed")
                         ELSE [s EXCEPT !.pc = "wait"]]
    /\ UNCHANGED <<ledgerVars, ret, orchVars>>

LostNext ==
    \/ StartNext
    \/ \E v \in SimFleet, d \in AttemptDurations : RegisterAttemptLost(v, d)

LostSpec == StartInit /\ [][LostNext]_vars

\* C39: registration is not idempotent: an attempt for an id the directory
\* already holds is rejected and leaves the record as it is.  Hence, once
\* the directory holds the vehicle while its simulator is still registering
\* (the response of the attempt that stored it was lost), no retry succeeds,
\* the simulation loop never starts, and the last attempt makes Start
\* return an error, the vehicle being registered.
C39_RegistrationNotIdempotent ==
    [][\A v \in SimFleet :
          LET s == sim[v]
              n == sim'[v]
          IN  (v \in DOMAIN vehicles /\ s.pc \in {"boot", "wait"}) =>
                 /\ vehicles' = vehicles
                 /\ n.pc \in {"boot", "wait", "failed"}
                 /\ (s.pc = "boot" /\ n.pc # "boot") =>
                       IF s.attempt = maxRetries - 1
                       THEN n.pc = "failed" /\ n.startErr # "none"
                       ELSE n.pc = "wait"]_vars

\* Start has returned an error after its last attempt, before the deadline,
\* and the directory holds the vehicle.
C39_Witness ==
    \E v \in SimFleet :
        /\ sim[v].pc = "failed"
        /\ sim[v].startErr = "registration failed"
        /\ sim[v].attempt = maxRetries - 1
        /\ v \in DOMAIN vehicles


---------------------------------------------------------------------------
(***************************************************************************)
(* ShortSpec: SimSpec in a region where every route is shorter than 750    *)
(* grid units, so that the ten steps of a route cost less than 15 % each.  *)
(* The vehicle spawns at 500 with 60 % or 66 %; the client asks for rides  *)
(* at 700 and deliveries from 600 to 740.                                  *)
(***************************************************************************)
ShortSpawnLevels == {600, 660}
ShortSpawnPlaces == {500}
ShortJobInputs ==
    {<<"ride", "us-west-2", 700, 700>>, <<"delivery", "us-west-2", 600, 740>>}

ShortInit ==
    /\ vehicles = EmptyMap
    /\ jobs = EmptyMap
    /\ jobCounter = 0
    /\ ret = NoReturn
    /\ IdleOrch
    /\ sim \in [SimFleet -> {NewVehicle(SpawnRegion, l, p) :
                                l \in ShortSpawnLevels, p \in ShortSpawnPlaces}]

ShortNext ==
    \/ \E v \in SimFleet : Register(v)
    \/ \E v \in SimFleet : TickWork(v)
    \/ \E v \in SimFleet : TickReport(v)
    \/ \E in \in ShortJobInputs : CreateStart(in[1], in[2], in[3], in[4])
    \/ Find("create")
    \/ Assign("create")
    \/ Update("create")

ShortSpec == ShortInit /\ [][ShortNext]_vars

\* The battery the movement of a tick costs a vehicle in state c: nothing
\* when it stands, a step straight towards its target when it idles, a
\* step along its route otherwise.
TickStepCost(c) ==
    IF ~c.isMoving THEN 0
    ELSE IF c.Status = "available"
    THEN calculateDistance(c.loc,
             moveTowardsTarget([c EXCEPT !.BatteryLevel = 100 * FullBattery]).loc)
           \div batteryDrainRate
    ELSE StepCost(c)

\* The movement of this tick costs less than 15 %, whichever job the poll
\* starts.
StepsAreShort(v) ==
    \A c \in checkForJobs(sim[v], v, jobs) : TickStepCost(c) < CriticalBattery

===========================================================================
